---- MODULE Spec2Model ----
(***************************************************************************)
(* Marvin chess engine: the alpha-beta search of src/src/search.c          *)
(* (search_find_best_move, search_root, search, quiescence, checkup and    *)
(* the killer/history/pv helpers) as a state machine with an explicit      *)
(* call stack.  The board, the move selector, the transposition table and  *)
(* the SMP coordinator are collaborators whose code is outside src/; they  *)
(* are modelled over a small abstract game graph.                          *)
(***************************************************************************)
EXTENDS Integers, Sequences, FiniteSets, TLC

(* ---------------------------------------------------------------------- *)
(* Program constants                                                       *)
(* ---------------------------------------------------------------------- *)
EXCEPTION_COMMAND == 1
EXCEPTION_STOP == 2
EXCEPTION_TIMEOUT == 3

NULLMOVE_DEPTH == 3
NULLMOVE_BASE_REDUCTION == 2
NULLMOVE_DIVISOR == 6

FUTILITY_DEPTH == 3
futility_margin == <<0, 300, 500, 900>>

RAZORING_DEPTH == 3
razoring_margin == <<0, 100, 200, 400>>

INFINITE_SCORE == 30000
CHECKMATE == 29000
KNOWN_WIN == 20000
TABLEBASE_WIN == 25000

(* A schedule that starts one entry too late.                              *)
aspiration_window_late == <<50, 100, 200, 400, 800, INFINITE_SCORE>>

aspiration_window == <<25, 50, 100, 200, 400, INFINITE_SCORE>>

LMP_DEPTH == 6
lmp_counts == <<0, 5, 10, 20, 35, 55>>

PROBCUT_DEPTH == 5
PROBCUT_MARGIN == 210

SEE_PRUNE_DEPTH == 5
see_prune_margin == <<0, -100, -200, -300, -400>>

NOMOVE == 0

TT_EXACT == 1
TT_BETA == 2
TT_ALPHA == 3

(* Bounds of the model (scaled stand-ins for the engine's large limits).   *)
MAX_PLY == 6
CheckupPeriod == 4
MAX_HISTORY_SCORE == 7
MaxLine == 14
(* The re-searches of one depth are followed up to this window index.      *)
MaxWindowIndex == 7

FORCED_MATE == CHECKMATE - MAX_PLY

(* C arrays are 0-based; TLA+ sequences are 1-based.                       *)
At(arr, i) == arr[i + 1]

(* aspiration_window has six entries; an index past the last one reads    *)
(* whatever follows the array, here any of these values.                   *)
BeyondWindow == {-100, 0, 5}
AspirationRead(i) == IF i < Len(aspiration_window) THEN {At(aspiration_window, i)}
                     ELSE BeyondWindow

MAX(a, b) == IF a > b THEN a ELSE b
MIN(a, b) == IF a < b THEN a ELSE b
abs(x) == IF x < 0 THEN -x ELSE x

(* ---------------------------------------------------------------------- *)
(* The abstract game: positions are nodes of a graph (the node is the      *)
(* Zobrist key), side to move is the node's parity, and every node has a   *)
(* list of pseudo-legal moves.  A move record names the encoded move m,    *)
(* the position it leads to, whether board_make_move accepts it (it does   *)
(* not leave the own king in check) and its static exchange value.         *)
(* ---------------------------------------------------------------------- *)
Mv(m, to, legal, see) == [m |-> m, to |-> to, legal |-> legal, see |-> see]

Nodes == (0 .. 11) \cup (18 .. 31) \cup (40 .. 47) \cup (50 .. 61) \cup (70 .. 80)

GameMoves(n) ==
    CASE n = 0 -> <<Mv(1, 1, TRUE, 0), Mv(2, 3, TRUE, 100), Mv(3, 5, TRUE, 0)>>
      [] n = 1 -> <<Mv(11, 2, TRUE, 0), Mv(12, 4, TRUE, 300)>>
      [] n = 3 -> <<Mv(31, 2, TRUE, 0), Mv(32, 6, TRUE, 0)>>
      [] n = 5 -> <<Mv(51, 4, TRUE, -200), Mv(11, 6, TRUE, 0)>>
      [] n = 2 -> <<Mv(21, 7, TRUE, 0), Mv(22, 9, TRUE, 100)>>
      [] n = 4 -> <<Mv(43, 7, FALSE, 0), Mv(21, 7, TRUE, 0), Mv(42, 9, TRUE, 0)>>
      [] n = 6 -> <<Mv(61, 9, TRUE, -100), Mv(21, 7, TRUE, 0)>>
      [] n = 7 -> <<Mv(73, 8, FALSE, 0), Mv(71, 8, TRUE, 0), Mv(72, 10, TRUE, 0)>>
      [] n = 9 -> <<Mv(71, 8, TRUE, 0), Mv(92, 10, TRUE, 0)>>
      [] n = 8 -> <<Mv(81, 7, TRUE, 0), Mv(82, 11, TRUE, 500)>>
      [] n = 10 -> <<Mv(101, 7, TRUE, 0), Mv(102, 9, TRUE, 0)>>
      [] n = 11 -> <<>>
      (* a quiet root, one capture, then a long line of cross-checks *)
      [] n = 18 -> <<Mv(181, 19, TRUE, 0)>>
      [] n = 19 -> <<Mv(191, 20, TRUE, 100)>>
      [] n \in 20 .. 30 -> <<Mv(10 * n + 2, n + 1, FALSE, 0), Mv(10 * n + 1, n + 1, TRUE, 0)>>
      [] n = 31 -> <<Mv(312, 30, FALSE, 0)>>
      (* mates at different distances from the root *)
      [] n = 40 -> <<Mv(401, 43, TRUE, 0), Mv(402, 41, TRUE, 0)>>
      [] n = 41 -> <<Mv(411, 40, FALSE, 0)>>
      [] n = 43 -> <<Mv(431, 44, TRUE, 0), Mv(432, 46, TRUE, 0)>>
      [] n = 44 -> <<Mv(441, 47, TRUE, 0), Mv(442, 45, TRUE, 0)>>
      [] n = 45 -> <<>>
      [] n = 46 -> <<Mv(461, 47, TRUE, 0)>>
      [] n = 47 -> <<Mv(471, 40, TRUE, 0), Mv(472, 42, TRUE, 0)>>
      [] n = 42 -> <<Mv(421, 41, TRUE, 0)>>
      (* a quiet line without branches, and two nodes that branch into it *)
      [] n \in {51, 53, 55} -> <<Mv(10 * n + 1, n + 1, TRUE, 0),
                               Mv(10 * n + 7, n + 3, TRUE, 600)>>
      [] n \in {50, 52, 54, 56, 57, 58} -> <<Mv(10 * n + 1, n + 1, TRUE, 0)>>
      [] n = 59 -> <<>>
      [] n = 60 -> <<Mv(601, 51, TRUE, 0), Mv(602, 53, TRUE, 0), Mv(603, 55, TRUE, 0),
                     Mv(604, 57, TRUE, 0), Mv(605, 59, TRUE, 0), Mv(606, 51, TRUE, 0),
                     Mv(607, 53, TRUE, 600)>>
      [] n = 61 -> <<Mv(611, 50, TRUE, 0), Mv(612, 60, TRUE, 0), Mv(613, 52, TRUE, 0)>>
      (* a node whose only move leaves a piece hanging, and two stalemates *)
      [] n = 70 -> <<>>
      [] n = 71 -> <<Mv(711, 73, TRUE, 0)>>
      [] n = 72 -> <<Mv(721, 70, TRUE, 0)>>
      [] n = 73 -> <<Mv(731, 72, TRUE, 0), Mv(732, 75, TRUE, 0)>>
      [] n = 74 -> <<>>
      [] n = 75 -> <<Mv(752, 74, FALSE, 0), Mv(751, 74, TRUE, -500)>>
      [] n = 76 -> <<Mv(761, 77, TRUE, 0)>>
      [] n = 77 -> <<Mv(771, 73, TRUE, 0), Mv(772, 78, TRUE, 0)>>
      [] n = 78 -> <<Mv(781, 72, TRUE, 0)>>
      (* a capture that mates *)
      [] n = 79 -> <<Mv(791, 80, TRUE, 0)>>
      [] n = 80 -> <<Mv(801, 45, TRUE, 100)>>

(* Flags packed into the encoded move.                                     *)
CaptureMoves == {2, 12, 51, 22, 61, 82, 191, 607, 517, 537, 557, 801}
EnPassantMoves == {22}
PromotionMoves == {42}
PawnPushMoves == {42, 3}

ISCAPTURE(move) == move \in CaptureMoves
ISENPASSANT(move) == move \in EnPassantMoves
ISPROMOTION(move) == move \in PromotionMoves

(* Positions in which the side to move is in check.                        *)
InCheckNodes == {7} \cup (20 .. 31) \cup {41, 45}
(* Positions in which the side to move has only king and pawns.            *)
PawnOnlyNodes == {10, 11}
(* Positions the endgame tablebases know, with the WDL result.             *)
TbNodes == {9, 10}
TbWdl(n) == IF n = 9 THEN "win" ELSE "draw"

(* The position after a pass: same pieces, other side to move.             *)
NullTo(n) == IF n % 2 = 0 THEN n + 1 ELSE n - 1

(* Static evaluation, from the side to move; v selects the evaluator.      *)
Variants == 1 .. 3
Evaluate(v, n) == (((n * (2 * v + 1) + 3 * v) % 7) - 3) * 250

MoveOf(n, m) == CHOOSE r \in {GameMoves(n)[i] : i \in DOMAIN GameMoves(n)} : r.m = m
HasMove(n, m) == \E i \in DOMAIN GameMoves(n) : GameMoves(n)[i].m = m

(* ---------------------------------------------------------------------- *)
(* struct position: the keys of all positions of the game so far (the      *)
(* last one is the current position), the fifty-move counter, the search   *)
(* ply and the undo stack of the moves made by the search.                 *)
(* ---------------------------------------------------------------------- *)
MkPos(prehist, root, fifty) ==
    [keys |-> Append(prehist, root), fifty |-> fifty, sply |-> 0, undo |-> <<>>]

PosKey(p) == p.keys[Len(p.keys)]
PosStm(p) == PosKey(p) % 2

board_in_check(p) == PosKey(p) \in InCheckNodes
board_has_non_pawn(p) == PosKey(p) \notin PawnOnlyNodes

(* board_make_move: the caller has checked mv.legal (an illegal move is    *)
(* taken back inside board_make_move, which then returns false).           *)
board_make_move(p, mv) ==
    [keys |-> Append(p.keys, mv.to),
     fifty |-> IF ISCAPTURE(mv.m) \/ mv.m \in PawnPushMoves THEN 0 ELSE p.fifty + 1,
     sply |-> p.sply + 1,
     undo |-> Append(p.undo, p.fifty)]

board_make_null_move(p) ==
    [keys |-> Append(p.keys, NullTo(PosKey(p))),
     fifty |-> p.fifty + 1,
     sply |-> p.sply + 1,
     undo |-> Append(p.undo, p.fifty)]

board_unmake_move(p) ==
    [keys |-> SubSeq(p.keys, 1, Len(p.keys) - 1),
     fifty |-> p.undo[Len(p.undo)],
     sply |-> p.sply - 1,
     undo |-> SubSeq(p.undo, 1, Len(p.undo) - 1)]

(* Every other earlier position back to the last irreversible move.        *)
board_is_repetition(p) ==
    LET ply == Len(p.keys) - 1
    IN \E idx \in 0 .. ply - 2 :
          /\ (ply - idx) % 2 = 0
          /\ idx >= ply - p.fifty
          /\ p.keys[idx + 1] = PosKey(p)

(* A variant of the draw test below without the fifty-move rule.           *)
IsDraw_repetition(p) == board_is_repetition(p)

(* The draw test of search and quiescence.                                 *)
IsDraw(p) == board_is_repetition(p) \/ p.fifty >= 100

(* ---------------------------------------------------------------------- *)
(* Transposition table (hash.c): one entry per key; a store replaces the   *)
(* entry of the same key.  Mate scores are stored relative to the node.    *)
(* The field taint is a history variable: what the entry's score rests on *)
(* besides the moves searched ("pruned": a forward-pruning decision,       *)
(* "table": a table entry or a tablebase).                                 *)
(* ---------------------------------------------------------------------- *)
NoEntry == [move |-> NOMOVE, depth |-> 0, score |-> 0, flag |-> 0, taint |-> {}]

ScoreToTT(score, sply) ==
    IF score > FORCED_MATE THEN score + sply
    ELSE IF score < -FORCED_MATE THEN score - sply
    ELSE score

ScoreFromTT(score, sply) ==
    IF score > FORCED_MATE THEN score - sply
    ELSE IF score < -FORCED_MATE THEN score + sply
    ELSE score

hash_tt_store(table, p, move, depth, score, flag, taint) ==
    [table EXCEPT ![PosKey(p)] =
        [move |-> move, depth |-> depth, score |-> ScoreToTT(score, p.sply),
         flag |-> flag, taint |-> taint]]

(* hash_tt_lookup: [hit, move, score, taint]; on a miss the stored move is *)
(* still handed out for move ordering.                                     *)
hash_tt_lookup(table, p, depth, alpha, beta) ==
    LET e == table[PosKey(p)]
        sc == ScoreFromTT(e.score, p.sply)
        cut == /\ e.flag # 0
               /\ e.depth >= depth
               /\ \/ e.flag = TT_EXACT
                  \/ e.flag = TT_BETA /\ sc >= beta
                  \/ e.flag = TT_ALPHA /\ sc <= alpha
    IN [hit |-> cut, move |-> e.move, score |-> sc, taint |-> e.taint]

(* ---------------------------------------------------------------------- *)
(* Per-worker tables.                                                      *)
(* ---------------------------------------------------------------------- *)
(* history_table[side][from][to]: from and to are part of the encoded      *)
(* move, so the cell is named by the side and the move.  Only non-zero     *)
(* cells are kept.                                                         *)
HistGet(h, side, move) == IF <<side, move>> \in DOMAIN h THEN h[<<side, move>>] ELSE 0

HistNormal(h) ==
    LET keep == {k \in DOMAIN h : h[k] # 0}
    IN [k \in keep |-> h[k]]

HistAdd(h, side, move, depth) ==
    [k \in DOMAIN h \cup {<<side, move>>} |->
        IF k = <<side, move>> THEN HistGet(h, side, move) + depth ELSE h[k]]

HistHalve(h) == [k \in DOMAIN h |-> h[k] \div 2]

(* A variant of update_history_table that rescales the updated cell only.  *)
update_history_table_cell(h, p, move, depth) ==
    IF ISCAPTURE(move) \/ ISENPASSANT(move) THEN h
    ELSE LET h1 == HistAdd(h, PosStm(p), move, depth)
             v == HistGet(h1, PosStm(p), move)
         IN IF v > MAX_HISTORY_SCORE
               THEN HistNormal([h1 EXCEPT ![<<PosStm(p), move>>] = v \div 2])
               ELSE HistNormal(h1)

update_history_table(h, p, move, depth) ==
    IF ISCAPTURE(move) \/ ISENPASSANT(move) THEN h
    ELSE LET h1 == HistAdd(h, PosStm(p), move, depth)
         IN IF HistGet(h1, PosStm(p), move) > MAX_HISTORY_SCORE
               THEN HistNormal(HistHalve(h1))
               ELSE HistNormal(h1)

(* What the updated cell holds before the table is rescaled.               *)
HistSum(h, p, move, depth) ==
    IF ISCAPTURE(move) \/ ISENPASSANT(move) THEN 0
    ELSE HistGet(h, PosStm(p), move) + depth

see_ge(p, move, threshold) == MoveOf(PosKey(p), move).see >= threshold

(* A variant of add_killer_move that does not look at slot 0 first.         *)
add_killer_move_again(kt, p, move) ==
    IF (ISCAPTURE(move) \/ ISENPASSANT(move)) /\ see_ge(p, move, 0) THEN kt
    ELSE [kt EXCEPT ![p.sply] = <<move, kt[p.sply][1]>>]

add_killer_move(kt, p, move) ==
    IF (ISCAPTURE(move) \/ ISENPASSANT(move)) /\ see_ge(p, move, 0) THEN kt
    ELSE IF move = kt[p.sply][1] THEN kt
    ELSE [kt EXCEPT ![p.sply] = <<move, kt[p.sply][1]>>]

is_killer_move(kt, p, move) == kt[p.sply][1] = move \/ kt[p.sply][2] = move

is_pawn_push(p, move) == move \in PawnPushMoves

is_tactical_move(move) == ISCAPTURE(move) \/ ISENPASSANT(move) \/ ISPROMOTION(move)

(* A variant of update_pv that copies the tail from the node's own ply.    *)
update_pv_own(pvt, p, move) ==
    [pvt EXCEPT ![p.sply] = <<move>> \o pvt[p.sply]]

(* update_pv: the move followed by the pv of the next ply.                 *)
update_pv(pvt, p, move) ==
    [pvt EXCEPT ![p.sply] = <<move>> \o pvt[p.sply + 1]]

(* ---------------------------------------------------------------------- *)
(* Move selector (moveselect.c): the moves of a node in the order of the   *)
(* phases, each with the phase that produced it.                           *)
(* ---------------------------------------------------------------------- *)
PHASE_TT == 1
PHASE_GOOD_CAPS == 2
PHASE_KILLER == 3
PHASE_MOVES == 4
PHASE_BAD_CAPS == 5

SortedDesc(s, k) ==
    LET n == Len(s)
        rank(i) == 1 + Cardinality({j \in 1 .. n :
                        k[j] > k[i] \/ (k[j] = k[i] /\ j < i)})
    IN [r \in 1 .. n |-> s[CHOOSE i \in 1 .. n : rank(i) = r]]

Tag(s, ph) == [i \in 1 .. Len(s) |-> [mv |-> s[i], phase |-> ph]]

IsCap(r) == ISCAPTURE(r.m) \/ ISENPASSANT(r.m)

(* qnode: quiescence selector; when not in check it yields only the tt     *)
(* move and captures.                                                      *)
SelectOrder(p, ttm, kt, h, qnode, in_check) ==
    LET n == PosKey(p)
        all == GameMoves(n)
        SeeKeys(q) == [i \in DOMAIN q |-> q[i].see]
        HistKeys(q) == [i \in DOMAIN q |-> HistGet(h, PosStm(p), q[i].m)]
        IsTT(r) == r.m = ttm
        GoodCap(r) == IsCap(r) /\ r.see >= 0 /\ r.m # ttm
        BadCap(r) == IsCap(r) /\ r.see < 0 /\ r.m # ttm
        Killer(r) == ~IsCap(r) /\ r.m # ttm /\ is_killer_move(kt, p, r.m)
        Killer0(r) == Killer(r) /\ r.m = kt[p.sply][1]
        Killer1(r) == Killer(r) /\ r.m # kt[p.sply][1]
        Quiet(r) == ~IsCap(r) /\ r.m # ttm /\ ~is_killer_move(kt, p, r.m)
        good == SelectSeq(all, GoodCap)
        bad == SelectSeq(all, BadCap)
        quiet == SelectSeq(all, Quiet)
        quiets == IF qnode /\ ~in_check THEN <<>>
                  ELSE Tag(SelectSeq(all, Killer0), PHASE_KILLER)
                       \o Tag(SelectSeq(all, Killer1), PHASE_KILLER)
                       \o Tag(SortedDesc(quiet, HistKeys(quiet)), PHASE_MOVES)
    IN Tag(SelectSeq(all, IsTT), PHASE_TT)
       \o Tag(SortedDesc(good, SeeKeys(good)), PHASE_GOOD_CAPS)
       \o quiets
       \o Tag(SortedDesc(bad, SeeKeys(bad)), PHASE_BAD_CAPS)

(* The root move list: the legal moves of the root, tt move first.         *)
RootOrder(p, ttm) ==
    LET all == GameMoves(PosKey(p))
        Legal(r) == r.legal
        IsTT(r) == r.legal /\ r.m = ttm
        Other(r) == r.legal /\ r.m # ttm
    IN Tag(SelectSeq(all, IsTT), PHASE_TT) \o Tag(SelectSeq(all, Other), PHASE_MOVES)

RootMoves(n) == {GameMoves(n)[i].m : i \in {j \in DOMAIN GameMoves(n) : GameMoves(n)[j].legal}}

(* ---------------------------------------------------------------------- *)
(* State                                                                   *)
(* ---------------------------------------------------------------------- *)
VARIABLES
    cfg,            \* the search request: root position, evaluator, worker id, limits
    pos,            \* worker->pos
    pv_table,       \* worker->pv_table[ply]
    killer_table,   \* worker->killer_table[ply][0..1]
    history_table,  \* worker->history_table
    tt,             \* the shared transposition table
    wk,             \* the scalar fields of struct search_worker
    st,             \* the shared struct gamestate (stop, abort, pondering, ...)
    stack,          \* the call stack below search_find_best_move
    ret,            \* the value returned by the call that ended last
    fbm,            \* the locals of search_find_best_move and its position
    xb,             \* the XBoard driver: its statics, the pending command, its position
    tn              \* the tuner: its worker records, events and threads

vars == <<cfg, pos, pv_table, killer_table, history_table, tt, wk, st, stack, ret, fbm,
          xb, tn>>

Plies == 0 .. MaxLine + 1

(* One activation record of search_root, search or quiescence.  alpha0,    *)
(* ply0, key0, taint, retval, why and hist_sum are history variables of    *)
(* the activation; tt0, killer0 and history0 are the table entry of its    *)
(* position, the killers of its ply and the history table at its entry;    *)
(* searched counts the moves of its move loop searched so far and pos0 is  *)
(* the position at its entry.                                              *)
NewFrame(fn, depth, alpha, beta, try_null, p) ==
    [fn |-> fn, pc |-> "enter", depth |-> depth, alpha |-> alpha, beta |-> beta,
     try_null |-> try_null, in_check |-> FALSE, pv_node |-> FALSE,
     tt_move |-> NOMOVE, static_score |-> 0, threshold |-> 0, reduction |-> 0,
     futility_pruning |-> FALSE, best_score |-> -INFINITE_SCORE,
     best_move |-> NOMOVE, tt_flag |-> TT_ALPHA, movenumber |-> 0,
     found_move |-> FALSE, move |-> NOMOVE, new_depth |-> 0,
     gives_check |-> FALSE, tactical |-> FALSE, score |-> 0,
     done |-> {}, phase |-> 0, retval |-> 0, stored |-> FALSE,
     alpha0 |-> alpha, ply0 |-> p.sply, key0 |-> PosKey(p), taint |-> {},
     why |-> "none", hist_sum |-> 0,
     tt0 |-> tt[PosKey(p)], killer0 |-> killer_table[p.sply], history0 |-> history_table,
     searched |-> 0, pos0 |-> p]

Top == stack[Len(stack)]
SetTop(f) == [stack EXCEPT ![Len(stack)] = f]
Push(f, g) == Append(SetTop(f), g)
Pop == SubSeq(stack, 1, Len(stack) - 1)
Running(fn, pc) == Len(stack) > 0 /\ Top.fn = fn /\ Top.pc = pc

(* The next move of the selector that has not been handed out yet.         *)
HasNext(order, done) == \E i \in DOMAIN order : order[i].mv.m \notin done
NextOf(order, done) ==
    order[CHOOSE i \in DOMAIN order :
            /\ order[i].mv.m \notin done
            /\ \A j \in 1 .. i - 1 : order[j].mv.m \in done]

(* ---------------------------------------------------------------------- *)
(* SMP coordinator and time control (smp.c, timectl.c)                     *)
(* ---------------------------------------------------------------------- *)
smp_stop_all(s, abort) == [s EXCEPT !.stop = TRUE, !.abort = s.abort \/ abort]

smp_complete_iteration(s, w) ==
    [s EXCEPT !.completed_depth = MAX(s.completed_depth, w.depth)]

CHECKUP(n) == n % CheckupPeriod = 0

(* What the outside world does between two checkups: another worker or     *)
(* the driver requests a stop or an abort, the clock runs out, or input    *)
(* arrives.                                                                *)
ExtEvents == {"none", "stop", "abort", "timeout", "command"}

(* checkup without the test of resolving_root_fail: every stop request is   *)
(* honoured at once.                                                       *)
checkup_every_stop(s, w, ext) ==
    LET s1 == IF ext = "stop" THEN smp_stop_all(s, FALSE)
              ELSE IF ext = "abort" THEN smp_stop_all(s, TRUE)
              ELSE s
    IN IF s1.stop
          THEN [exc |-> EXCEPTION_STOP, st |-> s1]
       ELSE IF ~CHECKUP(w.nodes)
          THEN [exc |-> 0, st |-> s1]
       ELSE IF ext = "timeout"
          THEN [exc |-> EXCEPTION_TIMEOUT, st |-> smp_stop_all(s1, FALSE)]
       ELSE IF w.id = 0 /\ ext = "command"
          THEN [exc |-> EXCEPTION_COMMAND, st |-> smp_stop_all(s1, TRUE)]
       ELSE [exc |-> 0, st |-> s1]

(* A checkup that looks at the stop request only when the node count is a  *)
(* multiple of the checkup period.                                         *)
checkup_polled(s, w, ext) ==
    LET s1 == IF ext = "stop" THEN smp_stop_all(s, FALSE)
              ELSE IF ext = "abort" THEN smp_stop_all(s, TRUE)
              ELSE s
    IN IF ~CHECKUP(w.nodes)
          THEN [exc |-> 0, st |-> s1]
       ELSE IF s1.stop /\ (s1.abort \/ ~w.resolving_root_fail)
          THEN [exc |-> EXCEPTION_STOP, st |-> s1]
       ELSE IF ext = "timeout"
          THEN [exc |-> EXCEPTION_TIMEOUT, st |-> smp_stop_all(s1, FALSE)]
       ELSE IF w.id = 0 /\ ext = "command"
          THEN [exc |-> EXCEPTION_COMMAND, st |-> smp_stop_all(s1, TRUE)]
       ELSE [exc |-> 0, st |-> s1]

(* A checkup whose timeout unwinds the worker without stopping the others. *)
checkup_alone(s, w, ext) ==
    LET s1 == IF ext = "stop" THEN smp_stop_all(s, FALSE)
              ELSE IF ext = "abort" THEN smp_stop_all(s, TRUE)
              ELSE s
    IN IF s1.stop /\ (s1.abort \/ ~w.resolving_root_fail)
          THEN [exc |-> EXCEPTION_STOP, st |-> s1]
       ELSE IF ~CHECKUP(w.nodes)
          THEN [exc |-> 0, st |-> s1]
       ELSE IF ext = "timeout"
          THEN [exc |-> EXCEPTION_TIMEOUT, st |-> s1]
       ELSE IF w.id = 0 /\ ext = "command"
          THEN [exc |-> EXCEPTION_COMMAND, st |-> smp_stop_all(s1, TRUE)]
       ELSE [exc |-> 0, st |-> s1]

(* checkup: exc is the exception of the longjmp (0: checkup returns) and   *)
(* st the shared state afterwards.                                         *)
checkup(s, w, ext) ==
    LET s1 == IF ext = "stop" THEN smp_stop_all(s, FALSE)
              ELSE IF ext = "abort" THEN smp_stop_all(s, TRUE)
              ELSE s
    IN IF s1.stop /\ (s1.abort \/ ~w.resolving_root_fail)
          THEN [exc |-> EXCEPTION_STOP, st |-> s1]
       ELSE IF ~CHECKUP(w.nodes)
          THEN [exc |-> 0, st |-> s1]
       ELSE IF ext = "timeout"
          THEN [exc |-> EXCEPTION_TIMEOUT, st |-> smp_stop_all(s1, FALSE)]
       ELSE IF w.id = 0 /\ ext = "command"
          THEN [exc |-> EXCEPTION_COMMAND, st |-> smp_stop_all(s1, TRUE)]
       ELSE [exc |-> 0, st |-> s1]

(* longjmp(worker->env, exc): the C stack is cut back to                   *)
(* search_find_best_move, which leaves its loop; nothing else changes.     *)
LongJmp(c, w) ==
    /\ stack' = <<>>
    /\ fbm' = [fbm EXCEPT !.pc = "tail", !.exception = c.exc,
                          !.jmp_ply = pos.sply, !.jmp_rrf = w.resolving_root_fail,
                          !.jmp_abort = c.st.abort,
                          !.jmp_seen = st.stop /\ st.abort]
    /\ st' = c.st
    /\ wk' = w
    /\ UNCHANGED <<cfg, xb, tn, pos, pv_table, killer_table, history_table, tt, ret>>

(* ---------------------------------------------------------------------- *)
(* Initial states                                                          *)
(* ---------------------------------------------------------------------- *)
MaxSd == 7

Req(roots, sds, ids) ==
    [root : roots, prehist : {<<>>}, fifty : {0}, variant : Variants, id : ids,
     sd : sds, pondering : {FALSE}, probe_wdl : {FALSE}, warm : {FALSE}]

(* A request is a search of one worker: the root position with the keys of *)
(* the game that led to it (positions further back differ from every       *)
(* position of the graph), the evaluation in use, the worker's id, the     *)
(* depth limit, and the state of the shared settings.                      *)
Requests ==
    Req({0, 4}, 1 .. 3, {0, 1})
    \cup Req({50, 60, 61, 18, 40, 43, 44}, {MaxSd}, {0, 1})
    \cup {[r EXCEPT !.pondering = TRUE] : r \in Req({0}, {2}, {0, 1}) \cup Req({43, 44}, {4}, {0})}
    \cup {[r EXCEPT !.probe_wdl = TRUE] : r \in Req({4, 8}, {3}, {0})}
    \cup {[r EXCEPT !.prehist = <<7, 8>>, !.fifty = 2, !.warm = w] :
              r \in Req({7}, {3}, {0}), w \in BOOLEAN}
    \cup {[r EXCEPT !.fifty = 98] : r \in Req({0, 7}, {3}, {0})}
    \cup Req({5, 71}, {3}, {0})
    \cup Req({70}, {2}, {0})
    \cup Req({76}, {4}, {0})
    \cup Req({79}, {1}, {0})

(* What an earlier search left in the transposition table.                 *)
WarmTT ==
    [n \in Nodes |->
        IF n \in {7, 8}
           THEN [move |-> GameMoves(n)[2].m, depth |-> MaxSd + 2, score |-> 500,
                 flag |-> TT_EXACT, taint |-> {"table"}]
           ELSE NoEntry]

(* smp.c prepares the worker with the first move of the root move list as  *)
(* its best move.                                                          *)
FirstRootMove(p) ==
    IF RootOrder(p, NOMOVE) = <<>> THEN NOMOVE ELSE RootOrder(p, NOMOVE)[1].mv.m

(* The worker and the shared state as smp.c and search_reset_data prepare  *)
(* them for the request.                                                   *)
WorkerInit ==
    /\ pv_table = [p \in Plies |-> <<>>]
    /\ killer_table = [p \in Plies |-> <<NOMOVE, NOMOVE>>]
    /\ history_table = <<>>
    /\ tt = IF cfg.warm THEN WarmTT ELSE [n \in Nodes |-> NoEntry]
    /\ wk = [id |-> cfg.id, nodes |-> 0, qnodes |-> 0, depth |-> 0, seldepth |-> 0,
             currmove |-> NOMOVE, currmovenumber |-> 0,
             best_move |-> FirstRootMove(MkPos(cfg.prehist, cfg.root, cfg.fifty)),
             ponder_move |-> NOMOVE,
             resolving_root_fail |-> FALSE, mates |-> {}]
    /\ st = [stop |-> FALSE, abort |-> FALSE, pondering |-> cfg.pondering,
             probe_wdl |-> cfg.probe_wdl, exit_on_mate |-> TRUE, sd |-> cfg.sd,
             completed_depth |-> 0]
    /\ ret = [score |-> 0, taint |-> {}]
    /\ fbm = [pc |-> "loop", depth |-> 1 + (cfg.id % 2),
              alpha |-> -INFINITE_SCORE, beta |-> INFINITE_SCORE,
              awindex |-> 0, bwindex |-> 0, score |-> 0, exception |-> 0,
              jmp_ply |-> 0, jmp_rrf |-> FALSE, jmp_abort |-> FALSE, iters |-> 0,
              input |-> "none", jmp_seen |-> FALSE]

(* The statics of the XBoard driver as the program starts, with the        *)
(* driver's place (pc: "idle" between commands, "engine", "analyze" or     *)
(* "hint" inside the search that make_engine_move, xboard_cmd_analyze or   *)
(* xboard_cmd_hint started, "quit" once the engine was told to leave), the *)
(* local ponder of make_engine_move, the stop that xboard_check_input      *)
(* reported to the running search and the pending command.  out, made,     *)
(* entered, last and executed are history variables of the last step: the  *)
(* replies it wrote, the engine moves it made on the board, whether it     *)
(* entered make_engine_move (and on what kind of position), the command it *)
(* read and the pending command it executed; placed tells that an          *)
(* unconfirmed ponder move is on the board, lines counts the lines read.   *)
BLACK == 1

NoCommand == [name |-> "", ok |-> FALSE, arg |-> 0]

TcStart ==
    [moves_per_time_control |-> 0, moves_to_time_control |-> 0, engine_time_left |-> 0,
     engine_time_increment |-> 0, search_depth_limit |-> MaxSd,
     time_control_type |-> "TC_INFINITE"]

XbStart ==
    [analyze_mode |-> FALSE, force_mode |-> FALSE, post_mode |-> FALSE,
     ponder_mode |-> FALSE, tablebase_mode |-> FALSE, engine_side |-> BLACK,
     game_over |-> FALSE, tc |-> TcStart, pondering_on |-> NOMOVE,
     pc |-> "idle", ponder |-> FALSE, stop |-> FALSE, pending |-> NoCommand,
     out |-> <<>>, made |-> 0, entered |-> "no", last |-> NoCommand,
     executed |-> NoCommand, placed |-> FALSE, lines |-> 0]

(* The tuner before find_k or tune_parameters runs: no worker records.     *)
(* pc is the place of the main thread, iter its loop index, call the       *)
(* number of the running call of calc_texel_error and k its argument;      *)
(* result and torn are history variables of the last call: the sums it     *)
(* read, and the workers that were writing their sum as it read.           *)
TnStart ==
    [pc |-> "off", mode |-> "none", nworkerthreads |-> 0, w |-> <<>>, iter |-> 0,
     call |-> 0, k |-> 0, result |-> <<>>, torn |-> {}]

Init ==
    /\ cfg \in Requests
    /\ pos = MkPos(cfg.prehist, cfg.root, cfg.fifty)
    /\ stack = <<>>
    /\ WorkerInit
    /\ xb = XbStart /\ tn = TnStart

(* ---------------------------------------------------------------------- *)
(* search_find_best_move                                                   *)
(* ---------------------------------------------------------------------- *)
(* The top of the iterative deepening loop: setjmp returns 0 and           *)
(* search_root is called.                                                  *)
FbmSearchRoot ==
    /\ fbm.pc = "loop"
    /\ LET a == MAX(fbm.alpha, -INFINITE_SCORE)
           b == MIN(fbm.beta, INFINITE_SCORE)
       IN /\ fbm' = [fbm EXCEPT !.pc = "root", !.alpha = a, !.beta = b,
                                !.iters = @ + 1]
          /\ wk' = [wk EXCEPT !.depth = fbm.depth, !.seldepth = 0]
          /\ stack' = <<NewFrame("search_root", fbm.depth, a, b, FALSE, pos)>>
    /\ UNCHANGED <<cfg, xb, tn, pos, pv_table, killer_table, history_table, tt, st, ret>>

(* The score is at or below alpha: widen downwards and search again.       *)
FbmFailLow ==
    /\ fbm.pc = "check"
    /\ fbm.score <= fbm.alpha
    /\ fbm.awindex < MaxWindowIndex
    /\ \E w \in AspirationRead(fbm.awindex + 1) :
          fbm' = [fbm EXCEPT !.awindex = @ + 1, !.alpha = fbm.score - w, !.pc = "loop"]
    /\ wk' = [wk EXCEPT !.resolving_root_fail = TRUE]
    /\ UNCHANGED <<cfg, xb, tn, pos, pv_table, killer_table, history_table, tt, st, stack, ret>>

(* A fail-high that marks the worker as resolving a root fail, as the      *)
(* fail-low does.                                                          *)
FbmFailHigh_resolving ==
    /\ fbm.pc = "check"
    /\ fbm.score > fbm.alpha
    /\ fbm.score >= fbm.beta
    /\ fbm.bwindex < MaxWindowIndex
    /\ \E w \in AspirationRead(fbm.bwindex + 1) :
          fbm' = [fbm EXCEPT !.bwindex = @ + 1, !.beta = fbm.score + w, !.pc = "loop"]
    /\ wk' = [wk EXCEPT !.resolving_root_fail = TRUE]
    /\ UNCHANGED <<cfg, xb, tn, pos, pv_table, killer_table, history_table, tt, st, stack, ret>>

(* The score is at or above beta: widen upwards and search again.          *)
FbmFailHigh ==
    /\ fbm.pc = "check"
    /\ fbm.score > fbm.alpha
    /\ fbm.score >= fbm.beta
    /\ fbm.bwindex < MaxWindowIndex
    /\ \E w \in AspirationRead(fbm.bwindex + 1) :
          fbm' = [fbm EXCEPT !.bwindex = @ + 1, !.beta = fbm.score + w, !.pc = "loop"]
    /\ UNCHANGED <<cfg, xb, tn, pos, pv_table, killer_table, history_table, tt, wk, st, stack, ret>>

(* The score is inside the window: the iteration is complete.  new_iter    *)
(* is the answer of tc_new_iteration.                                      *)
FbmComplete(new_iter) ==
    /\ fbm.pc = "check"
    /\ fbm.score > fbm.alpha
    /\ fbm.score < fbm.beta
    /\ LET depth == wk.depth + 1
           s1 == smp_complete_iteration(st, wk)
           known == /\ st.exit_on_mate /\ ~st.pondering
                    /\ (fbm.score > KNOWN_WIN \/ fbm.score < -KNOWN_WIN)
           a == IF depth > 5 THEN fbm.score - At(aspiration_window, 0)
                ELSE -INFINITE_SCORE
           b == IF depth > 5 THEN fbm.score + At(aspiration_window, 0)
                ELSE INFINITE_SCORE
       IN /\ wk' = [wk EXCEPT !.resolving_root_fail = FALSE]
          /\ IF known
                THEN /\ st' = smp_stop_all(s1, TRUE)
                     /\ fbm' = [fbm EXCEPT !.depth = depth, !.pc = "tail"]
             ELSE IF ~new_iter
                THEN /\ st' = smp_stop_all(s1, FALSE)
                     /\ fbm' = [fbm EXCEPT !.depth = depth, !.awindex = 0, !.bwindex = 0,
                                           !.alpha = a, !.beta = b, !.pc = "tail"]
             ELSE IF depth > st.sd
                THEN /\ st' = smp_stop_all(s1, TRUE)
                     /\ fbm' = [fbm EXCEPT !.depth = depth, !.awindex = 0, !.bwindex = 0,
                                           !.alpha = a, !.beta = b, !.pc = "tail"]
             ELSE /\ st' = s1
                  /\ fbm' = [fbm EXCEPT !.depth = depth, !.awindex = 0, !.bwindex = 0,
                                        !.alpha = a, !.beta = b, !.pc = "loop"]
    /\ UNCHANGED <<cfg, xb, tn, pos, pv_table, killer_table, history_table, tt, stack, ret>>

(* The loop after the iterations: worker 0 waits while pondering.  input   *)
(* is what engine_wait_for_input sees: a command that ends the search      *)
(* ("stop") or a ponderhit, which clears state->pondering.                 *)
FbmPonderWait(input) ==
    /\ fbm.pc = "tail"
    /\ wk.id = 0 /\ st.pondering
    /\ IF input = "stop"
          THEN /\ st' = smp_stop_all(st, TRUE)
               /\ fbm' = [fbm EXCEPT !.pc = "done", !.input = input]
          ELSE /\ st' = smp_stop_all([st EXCEPT !.pondering = FALSE], TRUE)
               /\ fbm' = [fbm EXCEPT !.input = input]
    /\ UNCHANGED <<cfg, xb, tn, pos, pv_table, killer_table, history_table, tt, wk, stack, ret>>

(* A return that does not wait while the engine is pondering.              *)
FbmReturn_early ==
    /\ fbm.pc = "tail"
    /\ fbm' = [fbm EXCEPT !.pc = "done"]
    /\ UNCHANGED <<cfg, xb, tn, pos, pv_table, killer_table, history_table, tt, wk, st, stack, ret>>

(* The loop condition is false: search_find_best_move returns.             *)
FbmReturn ==
    /\ fbm.pc = "tail"
    /\ ~(wk.id = 0 /\ st.pondering)
    /\ fbm' = [fbm EXCEPT !.pc = "done"]
    /\ UNCHANGED <<cfg, xb, tn, pos, pv_table, killer_table, history_table, tt, wk, st, stack, ret>>

(* ---------------------------------------------------------------------- *)
(* search_root                                                             *)
(* ---------------------------------------------------------------------- *)
RootEnter(ext) ==
    /\ Running("search_root", "enter")
    /\ LET f == Top
           c == checkup(st, wk, ext)
           lk == hash_tt_lookup(tt, pos, f.depth, f.alpha, f.beta)
       IN IF c.exc # 0 THEN LongJmp(c, wk)
          ELSE /\ pv_table' = [pv_table EXCEPT ![0] = <<>>]
               /\ stack' = SetTop([f EXCEPT !.pc = "loop",
                                            !.in_check = board_in_check(pos),
                                            !.tt_move = lk.move, !.best_move = lk.move,
                                            !.tt_flag = TT_ALPHA,
                                            !.best_score = -INFINITE_SCORE])
               /\ wk' = [wk EXCEPT !.currmovenumber = 0]
               /\ st' = c.st
               /\ UNCHANGED <<cfg, xb, tn, pos, killer_table, history_table, tt, ret, fbm>>

(* RootBest taking the best move from the second entry of the principal    *)
(* variation instead of the move just searched.                            *)
RootBest_reply(w, pvt, move) ==
    [w EXCEPT !.best_move = IF Len(pvt[0]) > 1 THEN pvt[0][2] ELSE NOMOVE,
              !.ponder_move = move]

(* RootBest keeping the old ponder move when the principal variation has   *)
(* a single move.                                                          *)
RootBest_stale(w, pvt, move) ==
    [w EXCEPT !.best_move = move,
              !.ponder_move = IF Len(pvt[0]) > 1 THEN pvt[0][2] ELSE @]

(* The best move and the ponder move of the worker, written when a root   *)
(* move has scored inside the window.                                      *)
RootBest(w, pvt, move) ==
    [w EXCEPT !.best_move = move,
              !.ponder_move = IF Len(pvt[0]) > 1 THEN pvt[0][2] ELSE NOMOVE]

(* The next root move is made and searched.                                *)
RootNextMove ==
    /\ Running("search_root", "loop")
    /\ HasNext(RootOrder(pos, Top.tt_move), Top.done)
    /\ LET f == Top
           mv == NextOf(RootOrder(pos, f.tt_move), f.done).mv
           pos1 == board_make_move(pos, mv)
           new_depth == IF board_in_check(pos1) THEN f.depth + 1 ELSE f.depth
       IN /\ wk' = [wk EXCEPT !.currmovenumber = @ + 1, !.currmove = mv.m]
          /\ pos' = pos1
          /\ stack' = Push([f EXCEPT !.pc = "ret", !.move = mv.m, !.done = @ \cup {mv.m},
                                     !.new_depth = new_depth],
                           NewFrame("search", new_depth - 1, -f.beta, -f.alpha, TRUE, pos1))
    /\ UNCHANGED <<cfg, xb, tn, pv_table, killer_table, history_table, tt, st, ret, fbm>>

(* The search of a root move has returned: unmake, then best score, best   *)
(* move, pv.                                                               *)
RootAfterMove ==
    /\ Running("search_root", "ret")
    /\ LET f == Top
           score == -ret.score
           pos0 == board_unmake_move(pos)
           f1 == [f EXCEPT !.score = score, !.taint = @ \cup ret.taint]
           better == score > f.best_score
           raise == better /\ score > f.alpha
           cut == raise /\ score >= f.beta
           pv1 == update_pv(pv_table, pos0, f.move)
       IN /\ pos' = pos0
          /\ IF cut
                THEN /\ killer_table' = add_killer_move(killer_table, pos0, f.move)
                     /\ stack' = SetTop([f1 EXCEPT !.best_score = score, !.best_move = f.move,
                                                   !.tt_flag = TT_BETA, !.pc = "end"])
                     /\ UNCHANGED <<pv_table, history_table, wk>>
             ELSE IF raise
                THEN /\ pv_table' = pv1
                     /\ history_table' = update_history_table(history_table, pos0, f.move, f.depth)
                     /\ wk' = RootBest(wk, pv1, f.move)
                     /\ stack' = SetTop([f1 EXCEPT
                                          !.best_score = score, !.best_move = f.move,
                                          !.tt_flag = TT_EXACT, !.alpha = score,
                                          !.hist_sum = HistSum(history_table, pos0, f.move,
                                                               f.depth),
                                          !.pc = "loop"])
                     /\ UNCHANGED killer_table
             ELSE /\ stack' = SetTop([f1 EXCEPT
                                        !.best_score = IF better THEN score ELSE @,
                                        !.best_move = IF better THEN f.move ELSE @,
                                        !.pc = "loop"])
                  /\ UNCHANGED <<pv_table, killer_table, history_table, wk>>
    /\ UNCHANGED <<cfg, xb, tn, tt, st, ret, fbm>>

(* All root moves are searched, or one failed high: store and return.      *)
RootFinish ==
    /\ Len(stack) > 0 /\ Top.fn = "search_root"
    /\ \/ Top.pc = "end"
       \/ Top.pc = "loop" /\ ~HasNext(RootOrder(pos, Top.tt_move), Top.done)
    /\ LET f == Top
       IN /\ tt' = hash_tt_store(tt, pos, f.best_move, f.depth, f.best_score, f.tt_flag,
                                 f.taint)
          /\ stack' = SetTop([f EXCEPT !.pc = "return", !.retval = f.best_score,
                                       !.stored = TRUE])
    /\ UNCHANGED <<cfg, xb, tn, pos, pv_table, killer_table, history_table, wk, st, ret, fbm>>

RootReturn ==
    /\ Running("search_root", "return")
    /\ stack' = Pop
    /\ ret' = [score |-> Top.retval, taint |-> Top.taint]
    /\ fbm' = [fbm EXCEPT !.score = Top.retval, !.pc = "check"]
    /\ UNCHANGED <<cfg, xb, tn, pos, pv_table, killer_table, history_table, tt, wk, st>>

(* ---------------------------------------------------------------------- *)
(* search                                                                  *)
(* ---------------------------------------------------------------------- *)
(* A variant of the mate score below that grows with the ply.              *)
MateScore_down(p) == -CHECKMATE - p.sply

(* The score of a node whose side to move is mated.                        *)
MateScore(p) == -CHECKMATE + p.sply

(* A variant of the ply limit below that is never reached.                 *)
QuiescenceAtLimit_never(p) == FALSE

(* The ply limit of quiescence.                                            *)
QuiescenceAtLimit(p) == p.sply >= MAX_PLY

(* History variable worker.mates: the mate scores the search has produced, *)
(* each with the ply of the mated node.                                    *)
MateSeen(w, ply, score) == [w EXCEPT !.mates = @ \cup {[ply |-> ply, score |-> score]}]

(* A return statement: the value waits in the frame until the frame is     *)
(* popped.  why names the return statement, t the taint of the value.      *)
ReturnWith(f, value, why, t) ==
    [f EXCEPT !.pc = "return", !.retval = value, !.why = why, !.taint = t]

(* A variant of the call below that hands quiescence a zero window.        *)
TailQuiescence_zw(f, t) ==
    [NewFrame("quiescence", 0, f.alpha, f.alpha + 1, FALSE, pos) EXCEPT !.taint = t]

(* `return quiescence(worker, 0, alpha, beta)`: the activation becomes a   *)
(* quiescence activation at the same ply.                                  *)
TailQuiescence(f, t) ==
    [NewFrame("quiescence", 0, f.alpha, f.beta, FALSE, pos) EXCEPT !.taint = t]

probe_wdl_tables(p) ==
    LET res == TbWdl(PosKey(p))
    IN IF res = "win" THEN TABLEBASE_WIN - p.sply
       ELSE IF res = "loss" THEN -TABLEBASE_WIN + p.sply
       ELSE 0

(* Node type, statistics, horizon, checkup, pv reset, draw.                *)
SearchEnter(ext) ==
    /\ Running("search", "enter")
    /\ LET f == Top
           w1 == [wk EXCEPT !.nodes = @ + 1]
           c == checkup(st, w1, ext)
           w2 == [w1 EXCEPT !.seldepth = MAX(@, pos.sply)]
           f1 == [f EXCEPT !.pv_node = (f.beta - f.alpha) > 1,
                           !.in_check = board_in_check(pos)]
       IN IF f.depth <= 0
             THEN /\ stack' = SetTop(TailQuiescence(f, {}))
                  /\ wk' = w1
                  /\ UNCHANGED <<cfg, xb, tn, pos, pv_table, killer_table, history_table, tt, st,
                                 ret, fbm>>
          ELSE IF c.exc # 0 THEN LongJmp(c, w1)
          ELSE /\ wk' = w2
               /\ st' = c.st
               /\ pv_table' = [pv_table EXCEPT ![pos.sply] = <<>>]
               /\ stack' = SetTop(IF IsDraw(pos) THEN ReturnWith(f1, 0, "draw", {})
                                  ELSE [f1 EXCEPT !.pc = "probe"])
               /\ UNCHANGED <<cfg, xb, tn, pos, killer_table, history_table, tt, ret, fbm>>

(* A variant of the step below that tries reverse futility pruning before *)
(* it looks at the transposition table and the tablebases.                 *)
SearchProbe_static_first ==
    /\ Running("search", "probe")
    /\ LET f == Top
           lk == hash_tt_lookup(tt, pos, f.depth, f.alpha, f.beta)
           static == Evaluate(cfg.variant, PosKey(pos))
       IN stack' = SetTop(
            IF /\ f.depth <= FUTILITY_DEPTH
               /\ ~f.in_check
               /\ ~f.pv_node
               /\ board_has_non_pawn(pos)
               /\ static - At(futility_margin, f.depth) >= f.beta
               THEN ReturnWith(f, static, "rfp", {"pruned"})
            ELSE IF lk.hit THEN ReturnWith(f, lk.score, "tt", {"table"})
            ELSE IF st.probe_wdl /\ PosKey(pos) \in TbNodes
               THEN ReturnWith(f, probe_wdl_tables(pos), "tb", {"table"})
            ELSE [f EXCEPT !.pc = "razor", !.tt_move = lk.move, !.static_score = static])
    /\ UNCHANGED <<cfg, xb, tn, pos, pv_table, killer_table, history_table, tt, wk, st, ret, fbm>>

(* Transposition table, tablebases, static evaluation, reverse futility.   *)
SearchProbe ==
    /\ Running("search", "probe")
    /\ LET f == Top
           lk == hash_tt_lookup(tt, pos, f.depth, f.alpha, f.beta)
           static == Evaluate(cfg.variant, PosKey(pos))
       IN stack' = SetTop(
            IF lk.hit THEN ReturnWith(f, lk.score, "tt", {"table"})
            ELSE IF st.probe_wdl /\ PosKey(pos) \in TbNodes
               THEN ReturnWith(f, probe_wdl_tables(pos), "tb", {"table"})
            ELSE IF /\ f.depth <= FUTILITY_DEPTH
                    /\ ~f.in_check
                    /\ ~f.pv_node
                    /\ board_has_non_pawn(pos)
                    /\ static - At(futility_margin, f.depth) >= f.beta
               THEN ReturnWith(f, static, "rfp", {"pruned"})
            ELSE [f EXCEPT !.pc = "razor", !.tt_move = lk.move, !.static_score = static])
    /\ UNCHANGED <<cfg, xb, tn, pos, pv_table, killer_table, history_table, tt, wk, st, ret, fbm>>

Razoring(f) ==
    /\ ~f.in_check
    /\ ~f.pv_node
    /\ f.tt_move = NOMOVE
    /\ f.depth <= RAZORING_DEPTH
    /\ f.static_score + At(razoring_margin, f.depth) <= f.alpha

SearchRazor ==
    /\ Running("search", "razor")
    /\ LET f == Top
           threshold == f.alpha - At(razoring_margin, f.depth)
       IN stack' =
            IF Razoring(f) /\ f.depth = 1 THEN SetTop(TailQuiescence(f, {"pruned"}))
            ELSE IF Razoring(f)
               THEN Push([f EXCEPT !.pc = "razor_ret", !.threshold = threshold],
                         NewFrame("quiescence", 0, threshold, threshold + 1, FALSE, pos))
            ELSE SetTop([f EXCEPT !.pc = "null"])
    /\ UNCHANGED <<cfg, xb, tn, pos, pv_table, killer_table, history_table, tt, wk, st, ret, fbm>>

SearchRazorRet ==
    /\ Running("search", "razor_ret")
    /\ LET f == Top
       IN stack' = SetTop(IF ret.score <= f.threshold
                             THEN ReturnWith(f, ret.score, "razor", ret.taint \cup {"pruned"})
                             ELSE [f EXCEPT !.pc = "null", !.score = ret.score])
    /\ UNCHANGED <<cfg, xb, tn, pos, pv_table, killer_table, history_table, tt, wk, st, ret, fbm>>

NullMove(f) ==
    /\ f.try_null
    /\ ~f.in_check
    /\ f.depth > NULLMOVE_DEPTH
    /\ board_has_non_pawn(pos)

(* A variant of the step below that lets the reply to a null move pass too. *)
SearchNull_again ==
    /\ Running("search", "null")
    /\ LET f == Top
           reduction == NULLMOVE_BASE_REDUCTION + (f.depth \div NULLMOVE_DIVISOR)
           pos1 == board_make_null_move(pos)
       IN IF NullMove(f)
             THEN /\ pos' = pos1
                  /\ stack' = Push([f EXCEPT !.pc = "null_ret", !.reduction = reduction],
                                   NewFrame("search", f.depth - reduction - 1, -f.beta,
                                            -f.beta + 1, TRUE, pos1))
             ELSE /\ stack' = SetTop([f EXCEPT !.pc = "probcut"])
                  /\ UNCHANGED pos
    /\ UNCHANGED <<cfg, xb, tn, pv_table, killer_table, history_table, tt, wk, st, ret, fbm>>

SearchNull ==
    /\ Running("search", "null")
    /\ LET f == Top
           reduction == NULLMOVE_BASE_REDUCTION + (f.depth \div NULLMOVE_DIVISOR)
           pos1 == board_make_null_move(pos)
       IN IF NullMove(f)
             THEN /\ pos' = pos1
                  /\ stack' = Push([f EXCEPT !.pc = "null_ret", !.reduction = reduction],
                                   NewFrame("search", f.depth - reduction - 1, -f.beta,
                                            -f.beta + 1, FALSE, pos1))
             ELSE /\ stack' = SetTop([f EXCEPT !.pc = "probcut"])
                  /\ UNCHANGED pos
    /\ UNCHANGED <<cfg, xb, tn, pv_table, killer_table, history_table, tt, wk, st, ret, fbm>>

SearchNullRet ==
    /\ Running("search", "null_ret")
    /\ LET f == Top
           score == -ret.score
       IN /\ pos' = board_unmake_move(pos)
          /\ stack' = SetTop(
               IF score >= f.beta
                  THEN ReturnWith(f, IF score < FORCED_MATE THEN score ELSE f.beta,
                                  "null", ret.taint \cup {"pruned"})
                  ELSE [f EXCEPT !.pc = "probcut", !.score = score])
    /\ UNCHANGED <<cfg, xb, tn, pv_table, killer_table, history_table, tt, wk, st, ret, fbm>>

ProbCut(f) ==
    /\ ~f.pv_node
    /\ ~f.in_check
    /\ f.depth >= PROBCUT_DEPTH
    /\ board_has_non_pawn(pos)

SearchProbcut ==
    /\ Running("search", "probcut")
    /\ LET f == Top
       IN stack' = SetTop(IF ProbCut(f)
                             THEN [f EXCEPT !.pc = "pc_loop", !.done = {},
                                            !.threshold = f.beta + PROBCUT_MARGIN]
                             ELSE [f EXCEPT !.pc = "init"])
    /\ UNCHANGED <<cfg, xb, tn, pos, pv_table, killer_table, history_table, tt, wk, st, ret, fbm>>

ProbcutOrder(f) == SelectOrder(pos, f.tt_move, killer_table, history_table, TRUE, f.in_check)

(* One turn of the ProbCut loop.                                           *)
SearchProbcutNext ==
    /\ Running("search", "pc_loop")
    /\ LET f == Top
           more == HasNext(ProbcutOrder(f), f.done)
           mv == NextOf(ProbcutOrder(f), f.done).mv
           f1 == [f EXCEPT !.done = @ \cup {mv.m}, !.move = mv.m]
           pos1 == board_make_move(pos, mv)
       IN IF ~more
             THEN /\ stack' = SetTop([f EXCEPT !.pc = "init"])
                  /\ UNCHANGED pos
          ELSE IF \/ ~ISCAPTURE(mv.m) /\ ~ISENPASSANT(mv.m)
                  \/ ~see_ge(pos, mv.m, f.threshold - f.static_score)
                  \/ ~mv.legal
             THEN /\ stack' = SetTop(f1)
                  /\ UNCHANGED pos
          ELSE /\ pos' = pos1
               /\ stack' = Push([f1 EXCEPT !.pc = "pc_ret"],
                                NewFrame("search", f.depth - PROBCUT_DEPTH + 1, -f.threshold,
                                         -f.threshold + 1, TRUE, pos1))
    /\ UNCHANGED <<cfg, xb, tn, pv_table, killer_table, history_table, tt, wk, st, ret, fbm>>

SearchProbcutRet ==
    /\ Running("search", "pc_ret")
    /\ LET f == Top
           score == -ret.score
       IN /\ pos' = board_unmake_move(pos)
          /\ stack' = SetTop(IF score >= f.threshold
                                THEN ReturnWith(f, score, "probcut", ret.taint \cup {"pruned"})
                                ELSE [f EXCEPT !.pc = "pc_loop", !.score = score])
    /\ UNCHANGED <<cfg, xb, tn, pv_table, killer_table, history_table, tt, wk, st, ret, fbm>>

(* The selector is set up again, the futility flag and the loop locals.    *)
SearchInit ==
    /\ Running("search", "init")
    /\ LET f == Top
       IN stack' = SetTop([f EXCEPT
            !.pc = "moves", !.done = {},
            !.futility_pruning = /\ f.depth <= FUTILITY_DEPTH
                                 /\ f.static_score + At(futility_margin, f.depth) <= f.alpha,
            !.best_score = -INFINITE_SCORE, !.best_move = NOMOVE, !.tt_flag = TT_ALPHA,
            !.movenumber = 0, !.found_move = FALSE])
    /\ UNCHANGED <<cfg, xb, tn, pos, pv_table, killer_table, history_table, tt, wk, st, ret, fbm>>

MoveOrder(f) == SelectOrder(pos, f.tt_move, killer_table, history_table, FALSE, f.in_check)

see_post_ge(mv, threshold) == mv.see >= threshold

(* A variant of the operator below that goes on with the pruned move made. *)
SkipMove_made(p1) == p1

(* A move is pruned after it has been made: it is taken back and the loop  *)
(* goes on with the next move.                                             *)
SkipMove(p1) == board_unmake_move(p1)

(* One turn of the move loop up to the first recursive call: the move is   *)
(* taken from the selector, made, classified, and pruned or searched.      *)
SearchNextMove ==
    /\ Running("search", "moves")
    /\ HasNext(MoveOrder(Top), Top.done)
    /\ LET f == Top
           mv == NextOf(MoveOrder(f), f.done).mv
           pawn_push == is_pawn_push(pos, mv.m)
           killer == is_killer_move(killer_table, pos, mv.m)
           hist == HistGet(history_table, PosStm(pos), mv.m)
           pos1 == board_make_move(pos, mv)
           gives_check == board_in_check(pos1)
           tactical == is_tactical_move(mv.m) \/ f.in_check \/ gives_check
           movenumber == f.movenumber + 1
           futile == f.futility_pruning /\ movenumber > 1 /\ ~tactical
           lmp == /\ ~f.pv_node
                  /\ f.depth < LMP_DEPTH
                  /\ movenumber > At(lmp_counts, f.depth)
                  /\ movenumber > 1
                  /\ ~tactical
                  /\ ~pawn_push
                  /\ ~killer
                  /\ abs(f.alpha) < KNOWN_WIN
                  /\ hist = 0
           seeprune == /\ ~f.pv_node
                       /\ mv.m # f.tt_move
                       /\ ~f.in_check
                       /\ ~gives_check
                       /\ f.depth < SEE_PRUNE_DEPTH
                       /\ ~see_post_ge(mv, At(see_prune_margin, f.depth))
           new_depth == IF gives_check THEN f.depth + 1 ELSE f.depth
           red1 == IF movenumber > 3 /\ f.depth > 3 /\ ~tactical THEN 1 ELSE 0
           reduction == IF red1 > 0 /\ movenumber > 6 THEN red1 + 1 ELSE red1
           f1 == [f EXCEPT !.done = @ \cup {mv.m}, !.move = mv.m]
           f2 == [f1 EXCEPT !.movenumber = movenumber, !.found_move = TRUE,
                            !.gives_check = gives_check, !.tactical = tactical,
                            !.new_depth = new_depth, !.reduction = reduction]
       IN IF ~mv.legal
             THEN /\ stack' = SetTop(f1)
                  /\ UNCHANGED pos
          ELSE IF futile \/ lmp \/ seeprune
             THEN /\ stack' = SetTop([f2 EXCEPT !.taint = @ \cup {"pruned"}, !.new_depth = f.depth,
                                                !.reduction = f.reduction])
                  /\ pos' = SkipMove(pos1)
          ELSE IF f.best_score = -INFINITE_SCORE
             THEN /\ pos' = pos1
                  /\ stack' = Push([f2 EXCEPT !.pc = "full_ret", !.searched = @ + 1],
                                   NewFrame("search", new_depth - 1, -f.beta, -f.alpha, TRUE,
                                            pos1))
          ELSE /\ pos' = pos1
               /\ stack' = Push([f2 EXCEPT !.pc = "zw_ret", !.searched = @ + 1],
                                NewFrame("search", new_depth - reduction - 1, -f.alpha - 1,
                                         -f.alpha, TRUE, pos1))
    /\ UNCHANGED <<cfg, xb, tn, pv_table, killer_table, history_table, tt, wk, st, ret, fbm>>

(* The move is taken back and the best score, the bound, the pv, the       *)
(* killers and the history are brought up to date with the move's score.   *)
SearchUpdate(f, score, t) ==
    LET pos0 == board_unmake_move(pos)
        f1 == [f EXCEPT !.score = score, !.taint = @ \cup t]
        better == score > f.best_score
        raise == better /\ score > f.alpha
        cut == raise /\ score >= f.beta
    IN /\ pos' = pos0
       /\ IF cut
             THEN /\ killer_table' = add_killer_move(killer_table, pos0, f.move)
                  /\ stack' = SetTop([f1 EXCEPT !.best_score = score, !.best_move = f.move,
                                                !.tt_flag = TT_BETA, !.pc = "finish"])
                  /\ UNCHANGED <<pv_table, history_table>>
          ELSE IF raise
             THEN /\ pv_table' = update_pv(pv_table, pos0, f.move)
                  /\ history_table' = update_history_table(history_table, pos0, f.move,
                                                           f.depth)
                  /\ stack' = SetTop([f1 EXCEPT
                                       !.best_score = score, !.best_move = f.move,
                                       !.tt_flag = TT_EXACT, !.alpha = score,
                                       !.hist_sum = HistSum(history_table, pos0, f.move,
                                                            f.depth),
                                       !.pc = "moves"])
                  /\ UNCHANGED killer_table
          ELSE /\ stack' = SetTop([f1 EXCEPT
                                     !.best_score = IF better THEN score ELSE @,
                                     !.best_move = IF better THEN f.move ELSE @,
                                     !.pc = "moves"])
               /\ UNCHANGED <<pv_table, killer_table, history_table>>

(* The full-window search of a move has returned (the first move, or the   *)
(* last re-search of a later one).                                         *)
SearchFullRet ==
    /\ Running("search", "full_ret")
    /\ SearchUpdate(Top, -ret.score, ret.taint)
    /\ UNCHANGED <<cfg, xb, tn, tt, wk, st, ret, fbm>>

(* The reduced zero-window search has returned.                            *)
SearchZwRet ==
    /\ Running("search", "zw_ret")
    /\ LET f == Top
           score == -ret.score
       IN IF score > f.alpha /\ f.reduction > 0
             THEN /\ stack' = Push([f EXCEPT !.pc = "lmr_ret", !.score = score],
                                   NewFrame("search", f.new_depth - 1, -f.alpha - 1, -f.alpha,
                                            TRUE, pos))
                  /\ UNCHANGED <<pos, pv_table, killer_table, history_table>>
          ELSE IF f.pv_node /\ score > f.alpha
             THEN /\ stack' = Push([f EXCEPT !.pc = "full_ret", !.score = score],
                                   NewFrame("search", f.new_depth - 1, -f.beta, -f.alpha, TRUE,
                                            pos))
                  /\ UNCHANGED <<pos, pv_table, killer_table, history_table>>
          ELSE SearchUpdate(f, score,
                            ret.taint \cup (IF f.reduction > 0 THEN {"pruned"} ELSE {}))
    /\ UNCHANGED <<cfg, xb, tn, tt, wk, st, ret, fbm>>

(* The full-depth zero-window re-search of a reduced move has returned.    *)
SearchLmrRet ==
    /\ Running("search", "lmr_ret")
    /\ LET f == Top
           score == -ret.score
       IN IF f.pv_node /\ score > f.alpha
             THEN /\ stack' = Push([f EXCEPT !.pc = "full_ret", !.score = score],
                                   NewFrame("search", f.new_depth - 1, -f.beta, -f.alpha, TRUE,
                                            pos))
                  /\ UNCHANGED <<pos, pv_table, killer_table, history_table>>
             ELSE SearchUpdate(f, score, ret.taint)
    /\ UNCHANGED <<cfg, xb, tn, tt, wk, st, ret, fbm>>

(* A variant of the test below that looks at the best score instead.       *)
NoMoveFound_unsearched(f) == f.best_score = -INFINITE_SCORE

(* The test for mate or stalemate after the move loop.                     *)
NoMoveFound(f) == ~f.found_move

(* After the loop: mate or stalemate, the table store, the return.         *)
SearchFinish ==
    /\ Len(stack) > 0 /\ Top.fn = "search"
    /\ \/ Top.pc = "finish"
       \/ Top.pc = "moves" /\ ~HasNext(MoveOrder(Top), Top.done)
    /\ LET f == Top
           best_score == IF ~NoMoveFound(f) THEN f.best_score
                         ELSE IF f.in_check THEN MateScore(pos) ELSE 0
           tt_flag == IF ~NoMoveFound(f) THEN f.tt_flag ELSE TT_EXACT
       IN /\ tt' = hash_tt_store(tt, pos, f.best_move, f.depth, best_score, tt_flag, f.taint)
          /\ stack' = SetTop([f EXCEPT !.pc = "return", !.retval = best_score,
                                       !.best_score = best_score, !.tt_flag = tt_flag,
                                       !.stored = TRUE,
                                       !.why = IF ~NoMoveFound(f) THEN "moves"
                                               ELSE IF f.in_check THEN "mate"
                                               ELSE "stalemate"])
          /\ wk' = IF NoMoveFound(f) /\ f.in_check
                      THEN MateSeen(wk, pos.sply, best_score)
                      ELSE wk
    /\ UNCHANGED <<cfg, xb, tn, pos, pv_table, killer_table, history_table, st, ret, fbm>>

SearchReturn ==
    /\ Running("search", "return")
    /\ stack' = Pop
    /\ ret' = [score |-> Top.retval, taint |-> Top.taint]
    /\ UNCHANGED <<cfg, xb, tn, pos, pv_table, killer_table, history_table, tt, wk, st, fbm>>

(* ---------------------------------------------------------------------- *)
(* quiescence                                                              *)
(* ---------------------------------------------------------------------- *)
QuiescenceOrder(f) ==
    SelectOrder(pos, f.tt_move, killer_table, history_table, TRUE, f.in_check)

(* A variant of the entry below without the stand pat of the best score.   *)
QuiescenceEnter_no_standpat(ext) ==
    /\ Running("quiescence", "enter")
    /\ LET f == Top
           w1 == IF f.depth < 0 THEN [wk EXCEPT !.nodes = @ + 1, !.qnodes = @ + 1] ELSE wk
           c == checkup(st, w1, ext)
           static_score == Evaluate(cfg.variant, PosKey(pos))
           in_check == board_in_check(pos)
           alpha == IF ~in_check /\ static_score > f.alpha THEN static_score ELSE f.alpha
           lk == hash_tt_lookup(tt, pos, 0, alpha, f.beta)
           f1 == [f EXCEPT !.static_score = static_score, !.in_check = in_check]
       IN IF c.exc # 0 THEN LongJmp(c, w1)
          ELSE /\ wk' = w1
               /\ st' = c.st
               /\ pv_table' = [pv_table EXCEPT ![pos.sply] = <<>>]
               /\ stack' = SetTop(
                    IF IsDraw(pos) THEN ReturnWith(f1, 0, "draw", f.taint)
                    ELSE IF QuiescenceAtLimit(pos)
                       THEN ReturnWith(f1, static_score, "maxply", f.taint)
                    ELSE IF ~in_check /\ static_score >= f.beta
                       THEN ReturnWith(f1, static_score, "standpat", f.taint)
                    ELSE IF lk.hit THEN ReturnWith(f1, lk.score, "tt", {"table"})
                    ELSE [f1 EXCEPT !.pc = "moves", !.alpha = alpha, !.tt_move = lk.move,
                                    !.best_score = -INFINITE_SCORE,
                                    !.found_move = FALSE, !.done = {}])
               /\ UNCHANGED <<cfg, xb, tn, pos, killer_table, history_table, tt, ret, fbm>>

(* Statistics, checkup, pv reset, draw, evaluation, ply limit, stand pat,  *)
(* transposition table.                                                    *)
QuiescenceEnter(ext) ==
    /\ Running("quiescence", "enter")
    /\ LET f == Top
           w1 == IF f.depth < 0 THEN [wk EXCEPT !.nodes = @ + 1, !.qnodes = @ + 1] ELSE wk
           c == checkup(st, w1, ext)
           static_score == Evaluate(cfg.variant, PosKey(pos))
           in_check == board_in_check(pos)
           alpha == IF ~in_check /\ static_score > f.alpha THEN static_score ELSE f.alpha
           lk == hash_tt_lookup(tt, pos, 0, alpha, f.beta)
           f1 == [f EXCEPT !.static_score = static_score, !.in_check = in_check]
       IN IF c.exc # 0 THEN LongJmp(c, w1)
          ELSE /\ wk' = w1
               /\ st' = c.st
               /\ pv_table' = [pv_table EXCEPT ![pos.sply] = <<>>]
               /\ stack' = SetTop(
                    IF IsDraw(pos) THEN ReturnWith(f1, 0, "draw", f.taint)
                    ELSE IF QuiescenceAtLimit(pos)
                       THEN ReturnWith(f1, static_score, "maxply", f.taint)
                    ELSE IF ~in_check /\ static_score >= f.beta
                       THEN ReturnWith(f1, static_score, "standpat", f.taint)
                    ELSE IF lk.hit THEN ReturnWith(f1, lk.score, "tt", {"table"})
                    ELSE [f1 EXCEPT !.pc = "moves", !.alpha = alpha, !.tt_move = lk.move,
                                    !.best_score = IF in_check THEN -INFINITE_SCORE
                                                   ELSE static_score,
                                    !.found_move = FALSE, !.done = {}])
               /\ UNCHANGED <<cfg, xb, tn, pos, killer_table, history_table, tt, ret, fbm>>

(* One turn of the capture loop up to the recursive call.                  *)
QuiescenceNextMove ==
    /\ Running("quiescence", "moves")
    /\ HasNext(QuiescenceOrder(Top), Top.done)
    /\ LET f == Top
           r == NextOf(QuiescenceOrder(f), f.done)
           mv == r.mv
           f1 == [f EXCEPT !.done = @ \cup {mv.m}, !.move = mv.m, !.phase = r.phase]
           pos1 == board_make_move(pos, mv)
           offlist == ~f.in_check /\ ~(IsCap(mv) /\ mv.see >= 0)
       IN IF ~f.in_check /\ ISCAPTURE(mv.m) /\ r.phase = PHASE_BAD_CAPS
             THEN /\ stack' = SetTop(f1)
                  /\ UNCHANGED pos
          ELSE IF ~mv.legal
             THEN /\ stack' = SetTop(f1)
                  /\ UNCHANGED pos
          ELSE /\ pos' = pos1
               /\ stack' = Push([f1 EXCEPT !.pc = "ret", !.found_move = TRUE,
                                           !.taint = @ \cup (IF offlist THEN {"table"} ELSE {})],
                                NewFrame("quiescence", f.depth - 1, -f.beta, -f.alpha, FALSE,
                                         pos1))
    /\ UNCHANGED <<cfg, xb, tn, pv_table, killer_table, history_table, tt, wk, st, ret, fbm>>

QuiescenceValue(f) ==
    IF f.in_check /\ ~f.found_move THEN MateScore(pos) ELSE f.best_score

(* The search of a capture has returned.                                   *)
QuiescenceAfterMove ==
    /\ Running("quiescence", "ret")
    /\ LET f == Top
           score == -ret.score
           pos0 == board_unmake_move(pos)
           f1 == [f EXCEPT !.score = score, !.taint = @ \cup ret.taint]
           better == score > f.best_score
           raise == better /\ score > f.alpha
           cut == raise /\ score >= f.beta
       IN /\ pos' = pos0
          /\ IF cut
                THEN /\ stack' = SetTop(ReturnWith([f1 EXCEPT !.best_score = score], score,
                                                   "cut", f1.taint))
                     /\ UNCHANGED pv_table
             ELSE IF raise
                THEN /\ pv_table' = update_pv(pv_table, pos0, f.move)
                     /\ stack' = SetTop([f1 EXCEPT !.best_score = score, !.alpha = score,
                                                   !.pc = "moves"])
             ELSE /\ stack' = SetTop([f1 EXCEPT !.best_score = IF better THEN score ELSE @,
                                                !.pc = "moves"])
                  /\ UNCHANGED pv_table
    /\ UNCHANGED <<cfg, xb, tn, killer_table, history_table, tt, wk, st, ret, fbm>>

(* The selector has no more moves.                                         *)
QuiescenceFinish ==
    /\ Running("quiescence", "moves")
    /\ ~HasNext(QuiescenceOrder(Top), Top.done)
    /\ LET mated == Top.in_check /\ ~Top.found_move
       IN /\ stack' = SetTop(ReturnWith(Top, QuiescenceValue(Top),
                                        IF mated THEN "mate" ELSE "moves", Top.taint))
          /\ wk' = IF mated THEN MateSeen(wk, pos.sply, QuiescenceValue(Top)) ELSE wk
    /\ UNCHANGED <<cfg, xb, tn, pos, pv_table, killer_table, history_table, tt, st, ret, fbm>>

QuiescenceReturn ==
    /\ Running("quiescence", "return")
    /\ stack' = Pop
    /\ ret' = [score |-> Top.retval, taint |-> Top.taint]
    /\ UNCHANGED <<cfg, xb, tn, pos, pv_table, killer_table, history_table, tt, wk, st, fbm>>

(* ---------------------------------------------------------------------- *)
(* The specification                                                       *)
(* ---------------------------------------------------------------------- *)
Next ==
    \/ FbmSearchRoot
    \/ FbmFailLow
    \/ FbmFailHigh
    \/ \E new_iter \in BOOLEAN : FbmComplete(new_iter)
    \/ \E input \in {"stop", "ponderhit"} : FbmPonderWait(input)
    \/ FbmReturn
    \/ \E ext \in ExtEvents : RootEnter(ext)
    \/ RootNextMove
    \/ RootAfterMove
    \/ RootFinish
    \/ RootReturn
    \/ \E ext \in ExtEvents : SearchEnter(ext)
    \/ SearchProbe
    \/ SearchRazor
    \/ SearchRazorRet
    \/ SearchNull
    \/ SearchNullRet
    \/ SearchProbcut
    \/ SearchProbcutNext
    \/ SearchProbcutRet
    \/ SearchInit
    \/ SearchNextMove
    \/ SearchFullRet
    \/ SearchZwRet
    \/ SearchLmrRet
    \/ SearchFinish
    \/ SearchReturn
    \/ \E ext \in ExtEvents : QuiescenceEnter(ext)
    \/ QuiescenceNextMove
    \/ QuiescenceAfterMove
    \/ QuiescenceFinish
    \/ QuiescenceReturn

Spec == Init /\ [][Next]_vars

(* ---------------------------------------------------------------------- *)
(* quiescence on its own: one call, as search and                          *)
(* search_get_quiscence_score make it, on a position at some ply with some *)
(* window.  The call ends when its activation is gone from the stack.      *)
(* ---------------------------------------------------------------------- *)
QuiescenceRoots == {1, 5, 7, 8, 19, 20}

QuiescenceWindows == {<<-INFINITE_SCORE, INFINITE_SCORE>>, <<-1, 0>>, <<250, 500>>}

QuiescencePlies == {0, MAX_PLY - 1, MAX_PLY}

QuiescenceRequests ==
    [root : QuiescenceRoots, prehist : {<<>>}, fifty : {0, 99}, variant : Variants,
     id : {0}, sd : {1}, pondering : {FALSE}, probe_wdl : {FALSE}, warm : {FALSE}]

QuiescenceInit ==
    /\ cfg \in QuiescenceRequests
    /\ WorkerInit
    /\ \E w \in QuiescenceWindows, k \in QuiescencePlies :
          /\ pos = [MkPos(cfg.prehist, cfg.root, cfg.fifty) EXCEPT !.sply = k]
          /\ stack = <<NewFrame("quiescence", 0, w[1], w[2], FALSE, pos)>>
    /\ xb = XbStart /\ tn = TnStart

QuiescenceNext ==
    \/ \E ext \in ExtEvents : QuiescenceEnter(ext)
    \/ QuiescenceNextMove
    \/ QuiescenceAfterMove
    \/ QuiescenceFinish
    \/ QuiescenceReturn

(* The worker runs on: it always takes its next step.                      *)
QuiescenceSpec ==
    QuiescenceInit /\ [][QuiescenceNext]_vars /\ WF_vars(QuiescenceNext)

(* ====================================================================== *)
(* Properties                                                              *)
(* ====================================================================== *)
RootPos == MkPos(cfg.prehist, cfg.root, cfg.fifty)

Unwound == fbm.exception # 0

(* C1, as the specification states it: once checkup has honoured a stop    *)
(* (EXCEPTION_STOP, EXCEPTION_TIMEOUT or EXCEPTION_COMMAND) and control is *)
(* back in search_find_best_move, the worker's search ply is 0 and its     *)
(* board is the root position.  The code does not take back the moves of   *)
(* the line it was searching, so this is violated.                         *)
C1_StopUnwindSafety == Unwound => (pos.sply = 0 /\ pos = RootPos)

RECURSIVE QuiescenceValueRef(_)
QuiescenceValueRef(p) ==
    LET static_score == Evaluate(cfg.variant, PosKey(p))
        in_check == board_in_check(p)
        all == GameMoves(PosKey(p))
        tried == {i \in DOMAIN all :
                     all[i].legal /\ (in_check \/ (IsCap(all[i]) /\ all[i].see >= 0))}
        vals == {-QuiescenceValueRef(board_make_move(p, all[i])) : i \in tried}
        best == CHOOSE v \in vals : \A u \in vals : u <= v
    IN IF IsDraw(p) THEN 0
       ELSE IF p.sply >= MAX_PLY THEN static_score
       ELSE IF in_check
          THEN (IF vals = {} THEN -CHECKMATE + p.sply ELSE best)
       ELSE IF vals = {} THEN static_score
       ELSE MAX(static_score, best)

RECURSIVE MinimaxValue(_, _)
MinimaxValue(p, depth) ==
    LET all == GameMoves(PosKey(p))
        tried == {i \in DOMAIN all : all[i].legal}
        Child(i) == board_make_move(p, all[i])
        vals == {-MinimaxValue(Child(i),
                               (IF board_in_check(Child(i)) THEN depth + 1 ELSE depth) - 1) :
                    i \in tried}
    IN IF depth <= 0 THEN QuiescenceValueRef(p)
       ELSE IF IsDraw(p) THEN 0
       ELSE IF vals = {} THEN (IF board_in_check(p) THEN -CHECKMATE + p.sply ELSE 0)
       ELSE CHOOSE v \in vals : \A u \in vals : u <= v

(* The bound kind stored with a score, read against the reference value.   *)
BoundHolds(flag, s, sstar) ==
    CASE flag = TT_EXACT -> s = sstar
      [] flag = TT_BETA -> sstar >= s
      [] flag = TT_ALPHA -> sstar <= s

StoredReturn == Running("search", "return") /\ Top.stored

(* C3, as the specification states it: the bound kind search stores for a  *)
(* node holds against the unpruned minimax value of the same depth, with   *)
(* all pruning heuristics enabled.  (Nodes whose score rests on a table    *)
(* entry are left out: the claim is about the pruning.)                    *)
C3_SoundBoundsWithPruning ==
    (StoredReturn /\ "table" \notin Top.taint)
        => BoundHolds(Top.tt_flag, Top.retval, MinimaxValue(pos, Top.depth))

(* C3, amended: the stored bound kind holds against the unpruned minimax   *)
(* value when no pruning heuristic has cut anything in the node's subtree  *)
(* and no score of the subtree was taken from a table.                     *)
C3_SoundBounds ==
    (StoredReturn /\ Top.taint = {})
        => BoundHolds(Top.tt_flag, Top.retval, MinimaxValue(pos, Top.depth))

(* C3's case: a node of depth 2 or more stores an exact score that no      *)
(* pruning and no table entry has touched, after it has searched two       *)
(* moves, and the score is not its static evaluation.                      *)
C3_Witness ==
    /\ StoredReturn /\ Top.taint = {}
    /\ Top.depth >= 2 /\ Top.tt_flag = TT_EXACT /\ Top.movenumber >= 2
    /\ Top.retval # Top.static_score

(* A position that repeats an earlier position of its line, or whose       *)
(* fifty-move counter has run out.                                         *)
DrawnPosition(p) ==
    \/ \E i \in 1 .. Len(p.keys) - 1 : p.keys[i] = PosKey(p)
    \/ p.fifty >= 100

InNode(fns) == Len(stack) > 0 /\ Top.fn \in fns /\ pos.sply = Top.ply0

(* C4: search and quiescence, entered below the root on a drawn position,  *)
(* return 0 and do nothing else there: no table probe, no tablebase probe, *)
(* no evaluation, no move.                                                 *)
C4_DrawShortCircuit ==
    (InNode({"search", "quiescence"}) /\ DrawnPosition(pos))
        => /\ Top.pc \in {"enter", "return"}
           /\ Top.pc = "return" => (Top.retval = 0 /\ Top.why = "draw")

(* C4's case: search returns from a drawn position for which the table     *)
(* holds an exact entry of sufficient depth with another score.            *)
C4_Witness ==
    /\ Running("search", "return") /\ DrawnPosition(pos) /\ Top.depth >= 1
    /\ tt[PosKey(pos)].flag = TT_EXACT
    /\ tt[PosKey(pos)].depth >= Top.depth
    /\ tt[PosKey(pos)].score # 0

(* A line of moves each of which board_make_move accepts in the position   *)
(* its predecessors lead to.                                               *)
RECURSIVE LegalLine(_, _)
LegalLine(p, line) ==
    \/ line = <<>>
    \/ /\ HasMove(PosKey(p), line[1])
       /\ MoveOf(PosKey(p), line[1]).legal
       /\ LegalLine(board_make_move(p, MoveOf(PosKey(p), line[1])), Tail(line))

(* C5: at every return of search, quiescence and search_root the pv of the *)
(* node's ply is a line of legal moves from the node's position, and so is *)
(* pv_table[0] when search_find_best_move looks at the score.              *)
C5_PvLegality ==
    /\ (Len(stack) > 0 /\ Top.pc = "return") => LegalLine(pos, pv_table[pos.sply])
    /\ fbm.pc = "check" => LegalLine(pos, pv_table[0])

(* C5's case: search_root returns from a re-search with a widened window   *)
(* with a pv of three moves or more.                                       *)
C5_Witness ==
    /\ Running("search_root", "return")
    /\ fbm.awindex + fbm.bwindex > 0
    /\ Len(pv_table[0]) >= 3

(* quiescence has returned the static evaluation from the ply limit.       *)
AtLimitReturn ==
    /\ Running("quiescence", "return")
    /\ Top.why = "maxply"

(* No activation of quiescence at ply MAX_PLY or beyond gets as far as its *)
(* move loop, none is called by quiescence beyond ply MAX_PLY, and at the  *)
(* limit quiescence returns the static evaluation.                         *)
QuiescenceBounded ==
    /\ \A i \in 1 .. Len(stack) :
          stack[i].fn = "quiescence"
              => /\ stack[i].pc \in {"moves", "ret"} => stack[i].ply0 < MAX_PLY
                 /\ (i > 1 /\ stack[i - 1].fn = "quiescence") => stack[i].ply0 <= MAX_PLY
    /\ (InNode({"quiescence"}) /\ Top.pc = "return" /\ pos.sply >= MAX_PLY
           /\ ~DrawnPosition(pos))
          => (Top.why = "maxply" /\ Top.retval = Evaluate(cfg.variant, PosKey(pos)))

UpdatedCell == <<PosStm(pos'), stack'[Len(stack')].move>>

HistoryCells == DOMAIN history_table \cup DOMAIN history_table' \cup {UpdatedCell}

(* C7: a call of update_history_table that pushes the updated cell above   *)
(* MAX_HISTORY_SCORE halves every cell of the table, and whenever the call *)
(* returns no cell is above MAX_HISTORY_SCORE.                             *)
C7_HistoryHalving ==
    [][history_table' # history_table =>
          LET sum == HistGet(history_table, UpdatedCell[1], UpdatedCell[2])
                        + stack'[Len(stack')].depth
              Before(c) == IF c = UpdatedCell THEN sum
                           ELSE HistGet(history_table, c[1], c[2])
          IN /\ sum > MAX_HISTORY_SCORE =>
                   \A c \in HistoryCells :
                      HistGet(history_table', c[1], c[2]) = Before(c) \div 2
             /\ sum <= MAX_HISTORY_SCORE =>
                   \A c \in HistoryCells : HistGet(history_table', c[1], c[2]) = Before(c)
             /\ \A c \in HistoryCells :
                   HistGet(history_table', c[1], c[2]) <= MAX_HISTORY_SCORE]_vars

(* C7's case: an update has just pushed its cell above MAX_HISTORY_SCORE   *)
(* while cells of both sides held scores, and the table has been rescaled. *)
C7_Witness ==
    /\ Len(stack) > 0
    /\ Top.pc \in {"moves", "loop"}
    /\ Top.hist_sum > MAX_HISTORY_SCORE
    /\ HistGet(history_table, PosStm(pos), Top.move) = Top.hist_sum \div 2
    /\ \E c \in DOMAIN history_table : c[1] # PosStm(pos)
    /\ Cardinality(DOMAIN history_table) >= 3

IsMateScore(s) == abs(s) >= CHECKMATE - (MaxLine + 1) /\ abs(s) <= CHECKMATE

(* C8: of two mate scores produced at mated nodes of different plies, the  *)
(* one of the smaller ply has the larger absolute value; a mated node at   *)
(* ply p scores -CHECKMATE + p; and a mate score that a node returns, when *)
(* it rests on the moves searched alone, is the score of a mated node at   *)
(* or below the node's ply, negated once per ply on the way up.            *)
C8_MateMonotone ==
    /\ \A a, b \in wk.mates :
          a.ply < b.ply => (abs(a.score) > abs(b.score) /\ a.score < 0 /\ b.score < 0)
    /\ \A a \in wk.mates : a.score = -CHECKMATE + a.ply
    /\ (Len(stack) > 0 /\ Top.pc = "return" /\ Top.taint = {} /\ IsMateScore(Top.retval))
          => \E a \in wk.mates :
                /\ a.ply >= pos.sply
                /\ Top.retval = IF (a.ply - pos.sply) % 2 = 0 THEN a.score ELSE -a.score

(* C8's case: the search has produced mates at two plies up to MAX_PLY and *)
(* search_root returns the score of the shorter one.                       *)
C8_Witness ==
    /\ Running("search_root", "return")
    /\ \E a, b \in wk.mates :
          /\ a.ply < b.ply /\ b.ply <= MAX_PLY
          /\ Top.retval = IF a.ply % 2 = 0 THEN a.score ELSE -a.score

(* ---------------------------------------------------------------------- *)
(* C9  Stop requests while a root fail is being resolved                   *)
(* ---------------------------------------------------------------------- *)
(* C9 as claimed: a worker that is unwound while resolving_root_fail is    *)
(* set was unwound by an abort; nothing else interrupts the re-search.     *)
C9_OnlyAbortInterrupts == (Unwound /\ fbm.jmp_rrf) => fbm.jmp_abort

(* C9: a worker that is unwound with EXCEPTION_STOP while                  *)
(* resolving_root_fail is set was unwound by an abort: a soft stop request *)
(* leaves the widened re-search running.  (A timeout of the worker's own   *)
(* clock still unwinds it, with EXCEPTION_TIMEOUT and no abort.)           *)
C9_SoftStopDeferred ==
    (Unwound /\ fbm.jmp_rrf /\ fbm.exception = EXCEPTION_STOP) => fbm.jmp_abort

(* The widened re-search has run to the return of search_root although a   *)
(* soft stop was requested on the way.                                     *)
C9_Witness ==
    /\ Running("search_root", "return")
    /\ wk.resolving_root_fail
    /\ fbm.awindex > 0
    /\ st.stop /\ ~st.abort

(* ---------------------------------------------------------------------- *)
(* C10  When resolving_root_fail is set and cleared                        *)
(* ---------------------------------------------------------------------- *)
InIterations == fbm.pc \in {"loop", "root", "check"}

C11_AspirationWindows ==
    /\ (fbm.alpha = -INFINITE_SCORE /\ fbm.beta = INFINITE_SCORE
          /\ fbm.awindex = 0 /\ fbm.bwindex = 0)
    /\ [][LET sched == <<25, 50, 100, 200, 400, INFINITE_SCORE>>
              checked == fbm.pc = "check" /\ fbm'.pc = "loop"
          IN /\ (checked /\ fbm.score <= fbm.alpha /\ fbm.awindex < 5) =>
                   /\ fbm'.awindex = fbm.awindex + 1
                   /\ fbm'.alpha = fbm.score - sched[fbm.awindex + 2]
                   /\ fbm'.beta = fbm.beta /\ fbm'.bwindex = fbm.bwindex
                   /\ fbm'.depth = fbm.depth
             /\ (checked /\ fbm.score > fbm.alpha /\ fbm.score >= fbm.beta
                   /\ fbm.bwindex < 5) =>
                   /\ fbm'.bwindex = fbm.bwindex + 1
                   /\ fbm'.beta = fbm.score + sched[fbm.bwindex + 2]
                   /\ fbm'.alpha = fbm.alpha /\ fbm'.awindex = fbm.awindex
                   /\ fbm'.depth = fbm.depth
             /\ (checked /\ fbm.score > fbm.alpha /\ fbm.score < fbm.beta) =>
                   /\ fbm'.awindex = 0 /\ fbm'.bwindex = 0
                   /\ IF fbm'.depth > 5
                         THEN /\ fbm'.alpha = fbm.score - 25
                              /\ fbm'.beta = fbm.score + 25
                         ELSE /\ fbm'.alpha = -INFINITE_SCORE
                              /\ fbm'.beta = INFINITE_SCORE
             /\ (fbm.pc = "loop" /\ fbm'.pc = "root") =>
                   /\ stack'[1].fn = "search_root"
                   /\ stack'[1].depth = fbm.depth
                   /\ stack'[1].alpha = MAX(fbm.alpha, -INFINITE_SCORE)
                   /\ stack'[1].beta = MIN(fbm.beta, INFINITE_SCORE)]_vars

(* The re-search after the second consecutive fail-low of an iteration at  *)
(* depth > 5 is running: alpha is the failed score minus 100.              *)
C11_Witness ==
    /\ fbm.pc = "root"
    /\ fbm.depth > 5
    /\ fbm.awindex = 2 /\ fbm.bwindex = 0
    /\ fbm.alpha = fbm.score - 100
    /\ fbm.beta < INFINITE_SCORE

(* ---------------------------------------------------------------------- *)
(* C12  Depth limit                                                        *)
(* ---------------------------------------------------------------------- *)
(* C12: no call of search_root is made with a depth greater than the       *)
(* configured depth limit state.sd.                                        *)
C12_DepthLimit ==
    (Len(stack) > 0 /\ stack[1].fn = "search_root") => stack[1].depth <= st.sd

(* ---------------------------------------------------------------------- *)
(* C13  Pondering stall                                                    *)
(* ---------------------------------------------------------------------- *)
(* C13: after the iterations have ended, worker 0 cannot return while      *)
(* state.pondering is true; when it has returned from a search that was    *)
(* pondering, a stop or a ponderhit has been received in the wait and a    *)
(* stop of all workers has been requested.  A worker with another id       *)
(* never waits: it can always return and never receives input there.       *)
C13_PonderingStall ==
    /\ (fbm.pc = "tail" /\ wk.id = 0 /\ st.pondering) => ~ENABLED FbmReturn
    /\ (fbm.pc = "done" /\ wk.id = 0 /\ cfg.pondering) =>
          (fbm.input \in {"stop", "ponderhit"} /\ st.stop /\ st.abort)
    /\ (fbm.pc = "tail" /\ wk.id # 0) =>
          (ENABLED FbmReturn /\ ~ENABLED FbmPonderWait("stop")
             /\ ~ENABLED FbmPonderWait("ponderhit"))
    /\ (fbm.pc = "done" /\ wk.id # 0) => fbm.input = "none"

(* Worker 0 has returned from a pondering search whose iterations ended    *)
(* normally, after a ponderhit.                                            *)
C13_Witness ==
    /\ fbm.pc = "done"
    /\ wk.id = 0 /\ cfg.pondering
    /\ fbm.exception = 0
    /\ fbm.input = "ponderhit" /\ ~st.pondering
    /\ st.stop

(* ---------------------------------------------------------------------- *)
(* C14  Killer table                                                       *)
(* ---------------------------------------------------------------------- *)
(* A step in which the move just searched fails high at its node (search   *)
(* or search_root): the node's bound becomes TT_BETA.                      *)
CutoffStep ==
    /\ Len(stack) > 0 /\ Len(stack') = Len(stack)
    /\ Top.tt_flag # TT_BETA
    /\ stack'[Len(stack)].tt_flag = TT_BETA

(* C14 as claimed: every killer entry other than NOMOVE is a non-capture,  *)
(* and the two slots of a ply never hold the same move.                    *)
C14_KillersAreQuiet ==
    \A p \in Plies :
        /\ \A i \in 1 .. 2 :
              killer_table[p][i] # NOMOVE =>
                  (~ISCAPTURE(killer_table[p][i]) /\ ~ISENPASSANT(killer_table[p][i]))
        /\ (killer_table[p][1] # NOMOVE => killer_table[p][1] # killer_table[p][2])

(* C14: the killer table changes only when a move fails high, and then at  *)
(* the ply of its node: a move that is not a winning capture (a capture or *)
(* en passant with SEE >= 0) and differs from slot 0 goes to slot 0 and    *)
(* the old slot 0 to slot 1; otherwise the table stays as it is.  So slot  *)
(* 0 is the most recently added move, slot 1 the previously added          *)
(* different one, no entry was a winning capture when it was added (a      *)
(* losing capture can be a killer), and the slots of a ply hold the same   *)
(* move only when both are NOMOVE.                                         *)
C14_KillerTable ==
    /\ [](\A p \in Plies :
            /\ killer_table[p][1] = killer_table[p][2] => killer_table[p][1] = NOMOVE
            /\ killer_table[p][2] # NOMOVE => killer_table[p][1] # NOMOVE)
    /\ [][LET ply == pos'.sply
              move == stack'[Len(stack)].best_move
              winning == (ISCAPTURE(move) \/ ISENPASSANT(move)) /\ see_ge(pos', move, 0)
          IN /\ (killer_table' # killer_table) => CutoffStep
             /\ CutoffStep =>
                   /\ \A p \in Plies \ {ply} : killer_table'[p] = killer_table[p]
                   /\ IF winning \/ move = killer_table[ply][1]
                         THEN killer_table'[ply] = killer_table[ply]
                         ELSE killer_table'[ply] = <<move, killer_table[ply][1]>>]_vars

(* A ply has both killer slots filled, one of them with a losing capture.  *)
C14_Witness ==
    \E p \in Plies, i \in 1 .. 2 :
        /\ killer_table[p][1] # NOMOVE /\ killer_table[p][2] # NOMOVE
        /\ ISCAPTURE(killer_table[p][i])
        /\ \E n \in Nodes : /\ HasMove(n, killer_table[p][i])
                            /\ MoveOf(n, killer_table[p][i]).see < 0

(* ---------------------------------------------------------------------- *)
(* C15  History update on a beta cutoff                                    *)
(* ---------------------------------------------------------------------- *)
(* C15: whenever a quiet move (neither capture nor en passant) fails high  *)
(* at a node searched to depth d, update_history_table is applied to it    *)
(* with d (its cell grows by d before any halving) and the move is a       *)
(* killer of the node's ply afterwards.                                    *)
C15_HistoryOnCutoff ==
    [][CutoffStep =>
          LET move == stack'[Len(stack)].best_move
              quiet == ~ISCAPTURE(move) /\ ~ISENPASSANT(move)
          IN quiet =>
                /\ history_table' = update_history_table(history_table, pos', move,
                                                         Top.depth)
                /\ is_killer_move(killer_table', pos', move)]_vars

(* ---------------------------------------------------------------------- *)
(* C16  Quiescence and the transposition table                             *)
(* ---------------------------------------------------------------------- *)
(* C16: a quiescence node that has run its move loop (it was not cut short *)
(* by a draw, the ply limit, stand-pat or a table hit) has stored its      *)
(* result in the transposition table when it returns: the entry of its     *)
(* position holds the returned score with one of the three bounds.         *)
C16_QuiescenceStores ==
    (Running("quiescence", "return") /\ Top.why \in {"moves", "mate"}) =>
        LET e == tt[PosKey(pos)]
        IN /\ e # NoEntry
           /\ e.flag \in {TT_EXACT, TT_BETA, TT_ALPHA}
           /\ ScoreFromTT(e.score, pos.sply) = Top.retval

(* ---------------------------------------------------------------------- *)
(* C17  Mate and stalemate                                                 *)
(* ---------------------------------------------------------------------- *)
(* C17 as stated: every search node of a position without a legal move     *)
(* returns -CHECKMATE + sply when in check and 0 otherwise, with that      *)
(* score stored as EXACT with NOMOVE. It fails at nodes that return before *)
(* the move loop (draw, table hit, tablebase, reverse futility, razoring,  *)
(* null move, an aborted search).                                          *)
C17_NoLegalMoveNode ==
    (Running("search", "return") /\ Top.depth > 0 /\ RootMoves(PosKey(pos)) = {}) =>
        LET e == tt[PosKey(pos)]
        IN /\ Top.retval = (IF board_in_check(pos) THEN MateScore(pos) ELSE 0)
           /\ e.move = NOMOVE /\ e.flag = TT_EXACT
           /\ ScoreFromTT(e.score, pos.sply) = Top.retval

(* C17, amended: a search node that comes to the end of its move loop      *)
(* without having found a legal move returns -CHECKMATE + sply when the    *)
(* side to move is in check and 0 otherwise, and has stored that score     *)
(* with bound EXACT, move NOMOVE and its depth; the node returns this way  *)
(* exactly when its position has no legal move, so a node with a legal     *)
(* move never does, even when every one of its moves was pruned.           *)
C17_MateOrStalemate ==
    Running("search", "return") =>
        LET f == Top
            e == tt[PosKey(pos)]
        IN /\ (f.why \in {"mate", "stalemate"}) =>
                 /\ RootMoves(PosKey(pos)) = {}
                 /\ f.why = (IF board_in_check(pos) THEN "mate" ELSE "stalemate")
                 /\ f.retval = (IF board_in_check(pos) THEN MateScore(pos) ELSE 0)
                 /\ e = [move |-> NOMOVE, depth |-> f.depth,
                         score |-> ScoreToTT(f.retval, pos.sply), flag |-> TT_EXACT,
                         taint |-> f.taint]
                 /\ ScoreFromTT(e.score, pos.sply) = f.retval
           /\ f.why = "moves" => RootMoves(PosKey(pos)) # {}

(* A mated node below the root has returned its mate score.                *)
C17_Witness ==
    /\ Running("search", "return")
    /\ Top.why = "mate"
    /\ pos.sply > 0
    /\ Top.retval = -CHECKMATE + pos.sply
    /\ tt[PosKey(pos)].flag = TT_EXACT

(* ---------------------------------------------------------------------- *)
(* C18  At least one move is searched                                      *)
(* ---------------------------------------------------------------------- *)
(* C18: a search node that has a legal move searches at least one of them  *)
(* (no move loop ends with every legal move skipped), so search neither    *)
(* returns -INFINITE_SCORE nor stores it in the transposition table.       *)
C18_OneMoveSearched ==
    Running("search", "return") =>
        /\ Top.retval # -INFINITE_SCORE
        /\ Top.stored => ScoreFromTT(tt[PosKey(pos)].score, pos.sply) # -INFINITE_SCORE

(* ---------------------------------------------------------------------- *)
(* C19  Ply bound of the main search                                       *)
(* ---------------------------------------------------------------------- *)
(* C19: every activation of search that gets past the depth test (and so   *)
(* indexes pv_table and killer_table with its ply) is at a ply below       *)
(* MAX_PLY, and no line of pv_table is longer than MAX_PLY moves.          *)
C19_SearchPlyBound ==
    /\ \A i \in 1 .. Len(stack) :
          (stack[i].fn = "search" /\ stack[i].depth > 0 /\ stack[i].pc # "enter")
              => stack[i].ply0 < MAX_PLY
    /\ \A p \in DOMAIN pv_table : Len(pv_table[p]) <= MAX_PLY

(* ---------------------------------------------------------------------- *)
(* C20  Bound of the aspiration indices                                    *)
(* ---------------------------------------------------------------------- *)
(* C20: in every state of search_find_best_move awindex and bwindex are    *)
(* within 0..5, the indices of aspiration_window, whatever the root scores *)
(* are (a root without moves included).                                    *)
C20_AspirationIndexBound ==
    /\ fbm.awindex \in 0 .. Len(aspiration_window) - 1
    /\ fbm.bwindex \in 0 .. Len(aspiration_window) - 1

(* ---------------------------------------------------------------------- *)
(* C21  Cancellation                                                       *)
(* ---------------------------------------------------------------------- *)
(* Another worker calls smp_stop_all(worker, true) while this worker is in *)
(* its iterative deepening loop.                                           *)
OtherWorkerAborts ==
    /\ fbm.pc \notin {"tail", "done"}
    /\ ~st.abort
    /\ st' = smp_stop_all(st, TRUE)
    /\ UNCHANGED <<cfg, xb, tn, pos, pv_table, killer_table, history_table, tt, wk, stack, ret, fbm>>

(* The steps of the worker in searches to depth 2, in which no aspiration  *)
(* re-search, razoring, null-move or ProbCut search takes place.           *)
CancelWorker ==
    \/ FbmSearchRoot
    \/ \E new_iter \in BOOLEAN : FbmComplete(new_iter)
    \/ FbmReturn
    \/ \E ext \in ExtEvents : RootEnter(ext)
    \/ RootNextMove
    \/ RootAfterMove
    \/ RootFinish
    \/ RootReturn
    \/ \E ext \in ExtEvents : SearchEnter(ext)
    \/ SearchProbe
    \/ SearchRazor
    \/ SearchNull
    \/ SearchProbcut
    \/ SearchInit
    \/ SearchNextMove
    \/ SearchFullRet
    \/ SearchZwRet
    \/ SearchFinish
    \/ SearchReturn
    \/ \E ext \in ExtEvents : QuiescenceEnter(ext)
    \/ QuiescenceNextMove
    \/ QuiescenceAfterMove
    \/ QuiescenceFinish
    \/ QuiescenceReturn

(* Searches to depth 2 by either worker.                                   *)
CancelInit ==
    /\ cfg \in Req({0, 7}, {2}, {0, 1})
    /\ pos = MkPos(cfg.prehist, cfg.root, cfg.fifty)
    /\ stack = <<>>
    /\ WorkerInit
    /\ xb = XbStart /\ tn = TnStart

(* The worker is scheduled fairly; nothing obliges another worker to stop. *)
CancelSpec ==
    CancelInit /\ [][CancelWorker \/ OtherWorkerAborts]_vars /\ WF_vars(CancelWorker)

C23_OrderOfOperations ==
    /\ [][LET n == Len(stack)
              f == stack[n]
              g == stack'[n]
              Step(pc) == CASE pc = "enter" -> 0
                            [] pc = "probe" -> 1
                            [] pc \in {"razor", "razor_ret"} -> 2
                            [] pc \in {"null", "null_ret"} -> 3
                            [] pc \in {"probcut", "pc_loop", "pc_ret"} -> 4
                            [] pc = "init" -> 5
                            [] pc \in {"moves", "full_ret", "zw_ret", "lmr_ret", "finish"} -> 6
                            [] pc = "return" -> 7
              From(why) == CASE why = "draw" -> {"enter"}
                             [] why \in {"tt", "tb", "rfp"} -> {"probe"}
                             [] why = "razor" -> {"razor_ret"}
                             [] why = "null" -> {"null_ret"}
                             [] why = "probcut" -> {"pc_ret"}
                             [] why \in {"moves", "mate", "stalemate"} -> {"moves", "finish"}
              lk == hash_tt_lookup(tt, pos, f.depth, f.alpha, f.beta)
              tb == st.probe_wdl /\ PosKey(pos) \in TbNodes
          IN (n > 0 /\ Len(stack') >= n /\ f.fn = "search" /\ g.fn = "search" /\ g # f)
               => /\ Step(g.pc) >= Step(f.pc)
                  /\ f.pc = "enter" => (f.depth > 0 /\ g.pc = (IF IsDraw(pos) THEN "return"
                                                                ELSE "probe"))
                  /\ (f.pc # "return" /\ g.pc = "return")
                        => /\ f.pc \in From(g.why)
                           /\ g.why = "tt" <=> (f.pc = "probe" /\ lk.hit)
                           /\ g.why = "tb" <=> (f.pc = "probe" /\ ~lk.hit /\ tb)
                           /\ g.why = "rfp" => (~lk.hit /\ ~tb)
                           /\ g.stored <=> g.why \in {"moves", "mate", "stalemate"}]_vars
    /\ [](\A i \in 1 .. Len(stack) :
            (/\ stack[i].fn = "search" /\ stack[i].pc = "return"
             /\ stack[i].why \in {"draw", "tt", "tb", "rfp", "razor", "null", "probcut"})
               => /\ ~stack[i].stored
                  /\ tt[stack[i].key0] = stack[i].tt0
                  /\ killer_table[stack[i].ply0] = stack[i].killer0
                  /\ history_table = stack[i].history0)

(* C23's case: a null-move cutoff at a node whose table entry is the one   *)
(* found at its entry, although the null-move search below it has stored   *)
(* the entry of its own position.                                          *)
C23_Witness ==
    /\ Running("search", "return")
    /\ Top.why = "null" /\ ~Top.stored
    /\ tt[Top.key0] = Top.tt0
    /\ tt[NullTo(Top.key0)].flag # 0
    /\ tt[NullTo(Top.key0)].depth = Top.depth - Top.reduction - 1

(* ---------------------------------------------------------------------- *)
(* C24  Kind of the stored bound                                           *)
(* ---------------------------------------------------------------------- *)
(* C24: when search or search_root has stored its node, the entry holds    *)
(* the returned score and, with a0 the alpha at entry: at a node without a *)
(* legal move the bound is EXACT and the move NOMOVE; at a node with a     *)
(* legal move the bound is LOWER exactly when the score is >= beta, EXACT  *)
(* exactly when a0 < score < beta, with a legal move of the node stored as *)
(* the best move, and UPPER exactly when the score is <= a0.               *)
C24_StoredBound ==
    (/\ Len(stack) > 0 /\ Top.fn \in {"search", "search_root"}
     /\ Top.pc = "return" /\ Top.stored) =>
        LET f == Top
            e == tt[f.key0]
            legal == RootMoves(f.key0)
        IN /\ ScoreFromTT(e.score, f.ply0) = f.retval
           /\ e.depth = f.depth
           /\ e.flag \in {TT_EXACT, TT_BETA, TT_ALPHA}
           /\ legal = {} => (e.flag = TT_EXACT /\ e.move = NOMOVE)
           /\ legal # {} =>
                 /\ e.flag = TT_BETA <=> f.retval >= f.beta
                 /\ e.flag = TT_EXACT <=> (f.alpha0 < f.retval /\ f.retval < f.beta)
                 /\ e.flag = TT_ALPHA <=> f.retval <= f.alpha0
                 /\ e.flag = TT_EXACT => e.move \in legal

(* ---------------------------------------------------------------------- *)
(* C25  Re-search protocol of the move loop                                *)
(* ---------------------------------------------------------------------- *)
(* C25: in the move loop of search the first move searched is searched     *)
(* with the window (-beta, -alpha) at new_depth - 1; every later move is   *)
(* first searched with (-alpha - 1, -alpha) at new_depth - R - 1, searched *)
(* again with that window at new_depth - 1 only if its score beat alpha    *)
(* and R > 0, and searched with (-beta, -alpha) only in a PV node and only *)
(* if its score still beats alpha; no search below a non-PV node has a     *)
(* window wider than one.                                                  *)
C25_Research ==
    [][LET n == Len(stack)
           f == stack[n]
           g == stack'[n]
           c == stack'[n + 1]
           Full == c.alpha = -f.beta /\ c.beta = -f.alpha /\ c.depth = g.new_depth - 1
           Zero(d) == c.alpha = -f.alpha - 1 /\ c.beta = -f.alpha /\ c.depth = d
           score == -ret.score
       IN (/\ n > 0 /\ Len(stack') = n + 1 /\ f.fn = "search"
           /\ f.pc \in {"moves", "zw_ret", "lmr_ret"})
            => /\ c.fn = "search" /\ c.try_null
               /\ ~f.pv_node => c.beta - c.alpha <= 1
               /\ (f.pc = "moves" /\ f.searched = 0) => (Full /\ g.pc = "full_ret")
               /\ (f.pc = "moves" /\ f.searched > 0)
                     => (Zero(g.new_depth - g.reduction - 1) /\ g.pc = "zw_ret")
               /\ (f.pc = "zw_ret" /\ g.pc = "lmr_ret")
                     => (Zero(f.new_depth - 1) /\ score > f.alpha /\ f.reduction > 0)
               /\ (f.pc \in {"zw_ret", "lmr_ret"} /\ g.pc = "full_ret")
                     => (Full /\ f.pv_node /\ score > f.alpha)
               /\ f.pc = "lmr_ret" => g.pc = "full_ret"
               /\ f.pc = "zw_ret" => g.pc \in {"lmr_ret", "full_ret"}]_vars

(* ---------------------------------------------------------------------- *)
(* C26  Stand pat in quiescence                                            *)
(* ---------------------------------------------------------------------- *)
(* The statement without its exceptions: every quiescence node not in      *)
(* check returns s when s >= beta and never less than s, and every node in *)
(* check without a legal evasion returns -CHECKMATE + sply.                *)
C26_StandPatEveryNode ==
    (Len(stack) > 0 /\ Top.fn = "quiescence" /\ Top.pc = "return")
       => LET f == Top
              s == f.static_score
          IN /\ ~f.in_check => /\ s >= f.beta => f.retval = s
                               /\ f.retval >= s
             /\ (f.in_check /\ RootMoves(PosKey(pos)) = {}) => f.retval = MateScore(pos)

(* C26: a draw returns 0 and a node at MAX_PLY returns the static          *)
(* evaluation s, in check or not.  Any other quiescence node: not in       *)
(* check, it returns s at once if s >= beta; otherwise its loop starts     *)
(* with alpha raised to s when s > alpha and with best score s, and it     *)
(* returns no score below s unless a table entry cuts it off; in check     *)
(* there is no stand pat, the loop starts with the alpha of the call and   *)
(* best score -INFINITE_SCORE, and a node without a legal evasion that no  *)
(* table entry cuts off returns -CHECKMATE + sply.                         *)
C26_StandPat ==
    (Len(stack) > 0 /\ Top.fn = "quiescence" /\ Top.pc \in {"moves", "return"})
       => LET f == Top
              s == f.static_score
              early == IsDraw(pos) \/ QuiescenceAtLimit(pos)
              returned == f.pc = "return"
          IN /\ s = Evaluate(cfg.variant, PosKey(pos))
             /\ f.in_check = board_in_check(pos)
             /\ (returned /\ IsDraw(pos)) => (f.retval = 0 /\ f.why = "draw")
             /\ (returned /\ ~IsDraw(pos) /\ QuiescenceAtLimit(pos))
                   => (f.retval = s /\ f.why = "maxply")
             /\ (returned /\ ~early /\ ~f.in_check /\ s >= f.beta)
                   => (f.retval = s /\ f.why = "standpat")
             /\ (returned /\ ~early /\ ~f.in_check /\ f.why # "tt") => f.retval >= s
             /\ (returned /\ ~early /\ f.in_check /\ f.why # "tt"
                   /\ RootMoves(PosKey(pos)) = {})
                   => (f.retval = MateScore(pos) /\ f.why = "mate")
             /\ (f.pc = "moves" /\ ~f.in_check)
                   => /\ s < f.beta
                      /\ f.best_score >= s
                      /\ f.alpha >= s /\ f.alpha >= f.alpha0
                      /\ f.done = {} => /\ f.best_score = s
                                        /\ f.alpha = IF s > f.alpha0 THEN s ELSE f.alpha0
             /\ (f.pc = "moves" /\ f.in_check /\ f.done = {})
                   => (f.best_score = -INFINITE_SCORE /\ f.alpha = f.alpha0)

(* C26's case: a node not in check whose static evaluation raised alpha    *)
(* and stayed below beta has searched a capture and returns more than s.   *)
C26_Witness ==
    /\ Len(stack) > 0 /\ Top.fn = "quiescence" /\ Top.pc = "return"
    /\ ~Top.in_check /\ Top.found_move
    /\ Top.alpha0 < Top.static_score /\ Top.static_score < Top.beta
    /\ Top.retval > Top.static_score

(* ---------------------------------------------------------------------- *)
(* C27  Null moves                                                         *)
(* ---------------------------------------------------------------------- *)
(* C27: the node reached by a null move is searched with try_null = false  *)
(* and makes no null move itself; the null-move search has the window      *)
(* (-beta, -beta + 1) and the depth depth - R - 1 with R = 2 + depth/6,    *)
(* which for every depth > 3 is at least 1 and less than depth; and the    *)
(* null move is unmade when its result is examined.                        *)
C27_NullMove ==
    /\ [](\A d \in (NULLMOVE_DEPTH + 1) .. 64 :
             LET R == NULLMOVE_BASE_REDUCTION + (d \div NULLMOVE_DIVISOR)
             IN R >= 1 /\ R < d)
    /\ [](\A i \in 1 .. Len(stack) - 1 :
             stack[i].pc = "null_ret"
                => /\ stack[i].fn = "search" /\ stack[i].try_null
                   /\ stack[i + 1].fn \in {"search", "quiescence"}
                   /\ ~stack[i + 1].try_null
                   /\ stack[i + 1].pc # "null_ret"
                   /\ stack[i + 1].key0 = NullTo(stack[i].key0))
    /\ [][LET n == Len(stack)
              f == stack[n]
              g == stack'[n]
              c == stack'[n + 1]
              R == NULLMOVE_BASE_REDUCTION + (f.depth \div NULLMOVE_DIVISOR)
          IN /\ (n > 0 /\ Len(stack') = n + 1 /\ g.pc = "null_ret")
                   => /\ f.pc = "null" /\ f.depth > NULLMOVE_DEPTH
                      /\ c.alpha = -f.beta /\ c.beta = -f.beta + 1
                      /\ c.depth = f.depth - R - 1 /\ c.depth >= 0
                      /\ pos' = board_make_null_move(f.pos0)
             /\ (n > 0 /\ f.pc = "null_ret" /\ stack' # <<>>)
                   => /\ pos' = f.pos0
                      /\ g.pc \in {"return", "probcut"}
                      /\ g.pc = "return" <=> -ret.score >= f.beta
                      /\ g.pc = "return"
                            => g.retval = IF -ret.score < FORCED_MATE THEN -ret.score
                                          ELSE f.beta]_vars

(* C27's case: the reply to a null move is past its own null-move step,    *)
(* not in check and with a piece on the board, and has made no null move.  *)
C27_Witness ==
    /\ Len(stack) >= 2
    /\ stack[Len(stack) - 1].pc = "null_ret"
    /\ Top.fn = "search" /\ Top.pc = "probcut"
    /\ ~Top.in_check /\ board_has_non_pawn(pos)
    /\ pos.keys[Len(pos.keys)] = NullTo(pos.keys[Len(pos.keys) - 1])

(* ---------------------------------------------------------------------- *)
(* C28  The best move of the root                                          *)
(* ---------------------------------------------------------------------- *)
(* C28: the best move and the ponder move of the worker are written        *)
(* exactly when a root move has scored s with alpha < s < beta, alpha and  *)
(* beta inside the aspiration window of the iteration; they are then the   *)
(* first and the second move of pv_table[0], NOMOVE standing for a missing *)
(* second move.  No other step, a root fail low or fail high included,     *)
(* changes them.                                                           *)
C28_RootBestInsideWindow ==
    [][LET f == Top
           s == -ret.score
           inside == /\ Len(stack) > 0 /\ f.fn = "search_root" /\ f.pc = "ret"
                     /\ f.alpha < s /\ s < f.beta
           pv == pv_table'[0]
       IN /\ inside => /\ fbm.alpha <= f.alpha /\ f.beta = fbm.beta
                       /\ Len(pv) >= 1
                       /\ wk'.best_move = f.move /\ wk'.best_move = pv[1]
                       /\ wk'.ponder_move = IF Len(pv) > 1 THEN pv[2] ELSE NOMOVE
          /\ ~inside => /\ wk'.best_move = wk.best_move
                        /\ wk'.ponder_move = wk.ponder_move]_vars

(* C28's case: inside a narrowed aspiration window a root move has raised  *)
(* alpha and replaced a best move and a ponder move written before.        *)
C28_Witness ==
    /\ Len(stack) = 1 /\ Top.fn = "search_root" /\ Top.pc = "loop"
    /\ Top.tt_flag = TT_EXACT /\ Top.alpha = Top.score /\ Top.best_move = Top.move
    /\ fbm.beta < INFINITE_SCORE /\ fbm.alpha > -INFINITE_SCORE
    /\ wk.best_move = Top.move /\ wk.best_move = pv_table[0][1]
    /\ Len(pv_table[0]) > 1 /\ wk.ponder_move = pv_table[0][2]

(* ---------------------------------------------------------------------- *)
(* C29  Make and unmake                                                    *)
(* ---------------------------------------------------------------------- *)
(* C29: an activation of search, quiescence or search_root that returns    *)
(* normally returns with the position it was entered with; while it runs,  *)
(* the position is its own except for the one move whose search it is      *)
(* waiting for, and a move pruned after it was made is taken back before   *)
(* the loop goes on.  A root search that returns normally leaves the root  *)
(* position.                                                               *)
C29_MakeUnmakeBalance ==
    LET Waiting == {"ret", "razor_ret", "null_ret", "pc_ret", "full_ret", "zw_ret", "lmr_ret"}
        OneMove(p, q) == /\ Len(q.keys) = Len(p.keys) + 1
                         /\ board_unmake_move(q) = p
    IN /\ Len(stack) > 0
          => /\ Top.pc \notin Waiting => pos = Top.pos0
             /\ Top.pc = "return" => (pos.sply = Top.ply0 /\ PosKey(pos) = Top.key0)
             /\ (Top.pc \in Waiting \ {"razor_ret"}) => OneMove(Top.pos0, pos)
             /\ Top.pc = "razor_ret" => pos = Top.pos0
             /\ \A i \in 1 .. Len(stack) - 1 :
                   /\ stack[i].pc \in Waiting
                   /\ IF stack[i].pc = "razor_ret"
                         THEN stack[i + 1].pos0 = stack[i].pos0
                         ELSE OneMove(stack[i].pos0, stack[i + 1].pos0)
       /\ (stack = <<>> /\ fbm.exception = 0) => pos = MkPos(cfg.prehist, cfg.root, cfg.fifty)

(* C29's case: a node returns from its move loop after it has searched a   *)
(* move and pruned another one that had been made.                         *)
C29_Witness ==
    /\ Len(stack) > 1 /\ Top.fn = "search" /\ Top.pc = "return" /\ Top.why = "moves"
    /\ Top.searched >= 1 /\ Top.movenumber > Top.searched
    /\ "pruned" \in Top.taint
    /\ pos = Top.pos0 /\ pos.sply >= 2

(* ---------------------------------------------------------------------- *)
(* C30  The target of a long-return                                        *)
(* ---------------------------------------------------------------------- *)
(* C30: checkup long-returns only while search_find_best_move is inside    *)
(* the root search it has set a return point for; a quiescence search      *)
(* started without a return point never long-returns.                      *)
C30_LongReturnTarget ==
    [][(fbm.exception = 0 /\ fbm'.exception # 0) => fbm.pc = "root"]_vars

(* ====================================================================== *)
(* The XBoard driver (second half of search.c)                             *)
(* ====================================================================== *)
(* The driver plays on the game graph: new sets up StartNode, setboard one *)
(* of SetboardNodes (45 is a mate, 44 one move from it, 8 one capture from *)
(* the stalemate 11), and in MaterialDrawNodes neither side can win.  A    *)
(* session with the GUI is followed for MaxLines lines.                    *)
MaxLines == 3

StartNode == 7
SetboardNodes == {8, 44, 45}
MaterialDrawNodes == {10}

gen_legal_moves(p) == RootMoves(PosKey(p))
eval_is_material_draw(p) == PosKey(p) \in MaterialDrawNodes

(* The loop of is_three_fold_repetition from index idx on: the number of   *)
(* repetitions counted and the indices of pos->history it has read.        *)
(* history[i] holds the key of the position at ply i of the game.          *)
RECURSIVE repetition_loop(_, _, _, _)
repetition_loop(p, idx, nreps, read) ==
    IF idx >= 0 /\ idx >= (Len(p.keys) - 1) - p.fifty /\ nreps < 3
       THEN repetition_loop(p, idx - 2,
                            IF p.keys[idx + 1] = PosKey(p) THEN nreps + 1 ELSE nreps,
                            read \cup {idx})
       ELSE [nreps |-> nreps, read |-> read]

(* A variant that is content with one earlier occurrence.                  *)
is_three_fold_repetition_twice(p) ==
    repetition_loop(p, (Len(p.keys) - 1) - 2, 1, {}).nreps >= 2

is_three_fold_repetition(p) == repetition_loop(p, (Len(p.keys) - 1) - 2, 1, {}).nreps >= 3

is_game_over(p) ==
    IF gen_legal_moves(p) = {}
       THEN IF board_in_check(p) THEN "RESULT_CHECKMATE" ELSE "RESULT_STALEMATE"
       ELSE IF p.fifty > 100 \/ is_three_fold_repetition(p) \/ eval_is_material_draw(p)
               THEN "RESULT_DRAW_BY_RULE"
               ELSE "RESULT_UNDETERMINED"

(* A command line: its first word, whether the rest of the line has the    *)
(* form the command's parser expects, and the move or position it names.   *)
Cmd(name, ok, arg) == [name |-> name, ok |-> ok, arg |-> arg]

(* The lines the GUI sends; "white" is a word the driver does not know and *)
(* 999 a move string that str2move finds in no position.                   *)
UserMoves == {71, 72, 73, 81, 82, 101, 441, 442, 999}

XbCommands ==
    {Cmd(n, TRUE, 0) : n \in {"?", ".", "analyze", "bk", "easy", "exit", "force", "go",
                              "hard", "hint", "new", "nopost", "otim", "playother",
                              "post", "quit", "remove", "result", "undo", "white"}}
    \cup {Cmd(n, b, 0) : n \in {"egtpath", "level", "memory", "ping", "sd", "st", "time"},
                         b \in BOOLEAN}
    \cup {Cmd("setboard", TRUE, n) : n \in SetboardNodes}
    \cup {Cmd("usermove", TRUE, m) : m \in UserMoves}
    \cup {Cmd("setboard", FALSE, 0), Cmd("usermove", FALSE, 0)}

(* The driver at work on a command: its statics x, the position p and the  *)
(* shared game state s.                                                    *)
Reply(d, text) == [d EXCEPT !.x.out = Append(@, text)]

update_moves_to_time_control(tc, p) ==
    LET fullmove == ((Len(p.keys) - 1) \div 2) + 1
        moves_in_tc == fullmove % tc.moves_per_time_control
    IN IF tc.time_control_type # "TC_TOURNAMENT" \/ fullmove = 1 THEN tc
       ELSE IF moves_in_tc = 1
               THEN [tc EXCEPT !.moves_to_time_control = tc.moves_per_time_control]
       ELSE IF moves_in_tc = 0 THEN [tc EXCEPT !.moves_to_time_control = 1]
       ELSE [tc EXCEPT !.moves_to_time_control =
                            tc.moves_per_time_control - moves_in_tc + 1]

(* make_engine_move from the top of its loop to the call of                *)
(* search_find_best_move, inside which the driver then is.                 *)
make_engine_move_search(d) ==
    [d EXCEPT !.x.tc = update_moves_to_time_control(d.x.tc, d.p),
              !.x.pc = "engine", !.x.stop = FALSE,
              !.s.sd = d.x.tc.search_depth_limit,
              !.s.pondering = d.x.ponder_mode /\ d.x.ponder]

make_engine_move(d) ==
    make_engine_move_search(
        [d EXCEPT !.x.ponder = FALSE, !.x.pondering_on = NOMOVE,
                  !.x.entered = IF is_game_over(d.p) = "RESULT_UNDETERMINED"
                                   THEN "live" ELSE "over"])

(* A variant that leaves a missed ponder move on the board.                *)
TakeBack_kept(p) == p

TakeBack(p) == board_unmake_move(p)

(* make_engine_move after search_find_best_move returned best_move and     *)
(* ponder_move.  The result of board_make_move is not looked at: when the  *)
(* search had no move to return, none is made and 'move' is sent all the   *)
(* same.                                                                   *)
make_engine_move_resume(d, best_move, ponder_move) ==
    IF d.x.pondering_on # NOMOVE
       THEN [d EXCEPT !.p = TakeBack(d.p), !.x.placed = FALSE, !.x.pc = "idle"]
       ELSE LET legal == best_move \in gen_legal_moves(d.p)
                p1 == IF legal THEN board_make_move(d.p, MoveOf(PosKey(d.p), best_move))
                      ELSE d.p
                d1 == [d EXCEPT !.p = p1, !.x.made = @ + (IF legal THEN 1 ELSE 0),
                                !.x.out = Append(@, "move")]
            IN IF is_game_over(p1) # "RESULT_UNDETERMINED"
                  THEN [d1 EXCEPT !.x.out = Append(@, "result"), !.x.game_over = TRUE,
                                  !.x.pc = "idle"]
               ELSE IF d.x.ponder_mode /\ ponder_move # NOMOVE
                  THEN LET p2 == board_make_move(p1, MoveOf(PosKey(p1), ponder_move))
                       IN IF is_game_over(p2) # "RESULT_UNDETERMINED"
                             THEN [d1 EXCEPT !.x.pc = "idle"]
                             ELSE make_engine_move_search(
                                      [d1 EXCEPT !.p = p2, !.x.ponder = TRUE,
                                                 !.x.pondering_on = ponder_move,
                                                 !.x.placed = TRUE])
               ELSE [d1 EXCEPT !.x.pc = "idle"]

xboard_cmd_new(d) ==
    [d EXCEPT !.p = MkPos(<<>>, StartNode, 0),
              !.x.tc.search_depth_limit = MaxSd, !.x.engine_side = BLACK,
              !.x.analyze_mode = FALSE, !.x.force_mode = FALSE, !.x.game_over = FALSE,
              !.s.exit_on_mate = TRUE]

xboard_cmd_setboard(cmd, d) ==
    IF ~cmd.ok THEN Reply(d, "Error (malformed command)")
    ELSE [d EXCEPT !.p = MkPos(<<>>, cmd.arg, 0)]

(* A variant that looks at the game again even when it rejects the undo.   *)
xboard_cmd_undo_always(d) ==
    LET legal == d.x.force_mode \/ d.x.analyze_mode
        p1 == IF legal /\ Len(d.p.keys) - 1 >= 1 THEN board_unmake_move(d.p) ELSE d.p
        d1 == [d EXCEPT !.p = p1,
                        !.x.game_over = is_game_over(p1) # "RESULT_UNDETERMINED"]
    IN IF legal THEN d1 ELSE Reply(d1, "Error (command not legal now)")

xboard_cmd_undo(d) ==
    IF d.x.force_mode \/ d.x.analyze_mode
       THEN LET p1 == IF Len(d.p.keys) - 1 >= 1 THEN board_unmake_move(d.p) ELSE d.p
            IN [d EXCEPT !.p = p1,
                         !.x.game_over = is_game_over(p1) # "RESULT_UNDETERMINED"]
       ELSE Reply(d, "Error (command not legal now)")

xboard_cmd_remove(d) ==
    LET p1 == IF Len(d.p.keys) - 1 >= 2 THEN board_unmake_move(board_unmake_move(d.p))
              ELSE d.p
    IN [d EXCEPT !.p = p1, !.x.game_over = is_game_over(p1) # "RESULT_UNDETERMINED"]

(* str2move finds no move for a string that names none of the position's   *)
(* moves; board_make_move takes an illegal move back and returns false.    *)
xboard_cmd_usermove(cmd, d, engine_move) ==
    IF ~cmd.ok THEN Reply(d, "Error (malformed command)")
    ELSE IF ~HasMove(PosKey(d.p), cmd.arg) THEN Reply(d, "Illegal move")
    ELSE IF ~MoveOf(PosKey(d.p), cmd.arg).legal THEN Reply(d, "Illegal move")
    ELSE LET d1 == [d EXCEPT !.p = board_make_move(d.p, MoveOf(PosKey(d.p), cmd.arg))]
         IN IF is_game_over(d1.p) # "RESULT_UNDETERMINED"
               THEN [d1 EXCEPT !.x.out = Append(@, "result"), !.x.game_over = TRUE]
            ELSE IF engine_move THEN make_engine_move(d1)
            ELSE d1

(* xboard_cmd_analyze from the top of its loop to the call of              *)
(* search_find_best_move.                                                  *)
xboard_cmd_analyze_search(d) ==
    [d EXCEPT !.x.pending = NoCommand, !.x.pc = "analyze", !.x.stop = FALSE,
              !.s.exit_on_mate = FALSE, !.s.pondering = FALSE]

xboard_cmd_analyze(d) == xboard_cmd_analyze_search([d EXCEPT !.x.analyze_mode = TRUE])

(* A variant of the loop below that leaves on a pending force or quit.     *)
AnalyzeLeaves_force_quit(cmd) == cmd = NoCommand \/ cmd.name \in {"force", "quit"}

AnalyzeLeaves(cmd) == cmd = NoCommand

(* xboard_cmd_analyze after search_find_best_move returned.                *)
xboard_cmd_analyze_resume(d) ==
    LET cmd == d.x.pending
        done(e) == [e EXCEPT !.x.executed = cmd]
    IN IF AnalyzeLeaves(cmd)
          THEN [d EXCEPT !.x.analyze_mode = FALSE, !.x.pc = "idle"]
          ELSE xboard_cmd_analyze_search(
                  CASE cmd.name = "bk" -> done(Reply(d, "book"))
                    [] cmd.name = "new" -> done(xboard_cmd_new(d))
                    [] cmd.name = "setboard" -> done(xboard_cmd_setboard(cmd, d))
                    [] cmd.name = "undo" -> done(xboard_cmd_undo(d))
                    [] cmd.name = "usermove" -> done(xboard_cmd_usermove(cmd, d, FALSE))
                    [] OTHER -> d)

(* ext stands for what the driver learns from outside the source at hand:  *)
(* whether the book or the last search offers a hint, and whether          *)
(* tablebases were found.                                                  *)
xboard_handle_command(cmd, d, ext) ==
    LET n == cmd.name
        malformed == Reply(d, "Error (malformed command)")
    IN CASE n \in {"?", "otim", "result"} -> d
         [] n = "analyze" -> xboard_cmd_analyze(d)
         [] n = "bk" -> Reply(d, "book")
         [] n = "easy" -> [d EXCEPT !.x.ponder_mode = FALSE]
         [] n = "exit" -> [d EXCEPT !.x.analyze_mode = FALSE]
         [] n = "egtpath" -> IF d.x.tablebase_mode THEN d
                             ELSE IF ~cmd.ok THEN malformed
                             ELSE [d EXCEPT !.x.tablebase_mode = ext]
         [] n = "force" -> [d EXCEPT !.x.force_mode = TRUE]
         [] n = "go" -> LET d1 == [d EXCEPT !.x.engine_side = PosStm(d.p),
                                            !.x.force_mode = FALSE]
                        IN IF ~d.x.game_over THEN make_engine_move(d1) ELSE d1
         [] n = "hard" -> [d EXCEPT !.x.ponder_mode = TRUE]
         [] n = "hint" -> IF ext THEN Reply(d, "Hint")
                          ELSE [d EXCEPT !.x.pc = "hint", !.x.stop = FALSE,
                                         !.s.sd = 6, !.s.pondering = FALSE]
         [] n = "level" -> IF ~cmd.ok THEN malformed
                           ELSE [d EXCEPT !.x.tc.moves_per_time_control = 2,
                                          !.x.tc.moves_to_time_control = 2,
                                          !.x.tc.engine_time_left = 300000,
                                          !.x.tc.engine_time_increment = 0,
                                          !.x.tc.time_control_type = "TC_TOURNAMENT"]
         [] n = "memory" -> IF ~cmd.ok THEN malformed ELSE d
         [] n = "new" -> xboard_cmd_new(d)
         [] n = "nopost" -> [d EXCEPT !.x.post_mode = FALSE]
         [] n = "ping" -> IF ~cmd.ok THEN malformed ELSE Reply(d, "pong")
         [] n = "playother" -> [d EXCEPT !.x.force_mode = FALSE,
                                         !.x.engine_side = 1 - PosStm(d.p)]
         [] n = "post" -> [d EXCEPT !.x.post_mode = TRUE]
         [] n = "quit" -> [d EXCEPT !.x.pc = "quit"]
         [] n = "remove" -> xboard_cmd_remove(d)
         [] n = "sd" -> IF ~cmd.ok THEN malformed
                        ELSE [d EXCEPT !.x.tc.search_depth_limit = 1]
         [] n = "setboard" -> xboard_cmd_setboard(cmd, d)
         [] n = "st" -> IF ~cmd.ok THEN malformed
                        ELSE [d EXCEPT !.x.tc.moves_per_time_control = 0,
                                       !.x.tc.moves_to_time_control = 0,
                                       !.x.tc.engine_time_left = 1000,
                                       !.x.tc.engine_time_increment = 0,
                                       !.x.tc.time_control_type = "TC_FIXED_TIME"]
         [] n = "time" -> IF ~cmd.ok THEN malformed
                          ELSE [d EXCEPT !.x.tc.engine_time_left = 10]
         [] n = "undo" -> xboard_cmd_undo(d)
         [] n = "usermove" -> xboard_cmd_usermove(cmd, d, ~d.x.force_mode)
         [] OTHER -> Reply(d, "Error (unknown command)")

(* xboard_check_input on the line cmd; x.stop is the value it returns.     *)
(* After a ponderhit its caller takes the search out of pondering.         *)
xboard_check_input(cmd, d) ==
    LET n == cmd.name
        pending == [d EXCEPT !.x.pending = cmd, !.x.stop = TRUE]
    IN CASE n = "." -> Reply(d, "stat01")
         [] n \in {"?", "exit"} -> [d EXCEPT !.x.stop = TRUE]
         [] n = "hint" -> Reply(d, "Hint")
         [] n = "easy" -> [d EXCEPT !.x.ponder_mode = FALSE]
         [] n = "hard" -> [d EXCEPT !.x.ponder_mode = TRUE]
         [] n = "nopost" -> [d EXCEPT !.x.post_mode = FALSE]
         [] n = "otim" -> d
         [] n = "ping" -> IF ~cmd.ok THEN Reply(d, "Error (malformed command)")
                          ELSE Reply(d, "pong")
         [] n = "post" -> [d EXCEPT !.x.post_mode = TRUE]
         [] n = "time" -> IF ~cmd.ok THEN Reply(d, "Error (malformed command)")
                          ELSE [d EXCEPT !.x.tc.engine_time_left = 10]
         [] n = "usermove" ->
                IF ~d.s.pondering THEN pending
                ELSE IF ~cmd.ok THEN Reply(d, "Error (malformed command)")
                ELSE IF cmd.arg = d.x.pondering_on
                        THEN [d EXCEPT !.x.pondering_on = NOMOVE, !.x.placed = FALSE,
                                       !.s.pondering = FALSE]
                        ELSE [pending EXCEPT !.s.pondering = FALSE]
         [] n \in {"bk", "force", "new", "quit", "setboard", "undo"} -> pending
         [] OTHER -> d

(* The history variables of the last step start afresh with each step.     *)
Fresh(x) ==
    [x EXCEPT !.out = <<>>, !.made = 0, !.entered = "no", !.last = NoCommand,
              !.executed = NoCommand]

Commit(d) ==
    /\ xb' = d.x
    /\ pos' = d.p
    /\ st' = d.s
    /\ UNCHANGED <<cfg, tn, pv_table, killer_table, history_table, tt, wk, stack, ret, fbm>>

(* The engine's main loop reads a line while no search runs and no command *)
(* is pending, and hands it to xboard_handle_command.                      *)
XbCommand(cmd, ext) ==
    /\ xb.pc = "idle" /\ xb.pending = NoCommand
    /\ xb.lines < MaxLines
    /\ Commit(xboard_handle_command(
                  cmd, [x |-> [Fresh(xb) EXCEPT !.last = cmd, !.lines = @ + 1],
                        p |-> pos, s |-> st], ext))

(* After a search that a command stopped, the main loop hands the pending  *)
(* command to xboard_handle_command.                                       *)
XbPending(ext) ==
    /\ xb.pc = "idle" /\ xb.pending # NoCommand
    /\ Commit(xboard_handle_command(
                  xb.pending,
                  [x |-> [Fresh(xb) EXCEPT !.last = xb.pending, !.executed = xb.pending,
                                           !.pending = NoCommand],
                   p |-> pos, s |-> st], ext))

(* The search reads a line at a checkup, or while it waits at its end for  *)
(* the ponder move to be played.                                           *)
XbCheckInput(cmd) ==
    /\ xb.pc \in {"engine", "analyze", "hint"} /\ ~xb.stop
    /\ xb.lines < MaxLines
    /\ Commit(xboard_check_input(
                  cmd, [x |-> [Fresh(xb) EXCEPT !.last = cmd, !.lines = @ + 1],
                        p |-> pos, s |-> st]))

(* search_find_best_move returns to the driver: a search that ponders only *)
(* once it was told to stop.  It returns a legal move of the position (no  *)
(* move when there is none) and a reply to it, or no reply.                *)
XbSearchReturns ==
    /\ xb.pc \in {"engine", "analyze", "hint"}
    /\ st.pondering => xb.stop
    /\ \E best_move \in IF gen_legal_moves(pos) = {} THEN {NOMOVE} ELSE gen_legal_moves(pos) :
       \E ponder_move \in IF best_move = NOMOVE THEN {NOMOVE}
                           ELSE {NOMOVE} \cup RootMoves(MoveOf(PosKey(pos), best_move).to) :
          LET d == [x |-> Fresh(xb), p |-> pos, s |-> [st EXCEPT !.pondering = FALSE]]
          IN Commit(CASE xb.pc = "engine" ->
                             make_engine_move_resume(d, best_move, ponder_move)
                      [] xb.pc = "analyze" -> xboard_cmd_analyze_resume(d)
                      [] xb.pc = "hint" -> [Reply(d, "Hint") EXCEPT !.x.pc = "idle"])

XbInit ==
    /\ cfg = CHOOSE r \in Req({StartNode}, {MaxSd}, {0}) : r.variant = 1
    /\ WorkerInit
    /\ pos = MkPos(<<>>, StartNode, 0)
    /\ stack = <<>>
    /\ xb = XbStart /\ tn = TnStart

XbNext ==
    \/ \E cmd \in XbCommands, ext \in BOOLEAN : XbCommand(cmd, ext)
    \/ \E ext \in BOOLEAN : XbPending(ext)
    \/ \E cmd \in XbCommands : XbCheckInput(cmd)
    \/ XbSearchReturns

XboardSpec == XbInit /\ [][XbNext]_vars

(* ---------------------------------------------------------------------- *)
(* is_three_fold_repetition and is_game_over on their own: games of up to  *)
(* MaxHistory plies among the positions of RepNodes, with any value of the *)
(* fifty-move counter (a position set up from a FEN string has a counter   *)
(* that is larger than the number of plies played since).                  *)
(* ---------------------------------------------------------------------- *)
MaxHistory == 6

RepNodes == {7, 8, 9, 10}

RepGames ==
    UNION {{h \in [1 .. k -> RepNodes] :
               \A i \in 1 .. k - 1 :
                   \E j \in DOMAIN GameMoves(h[i]) :
                       GameMoves(h[i])[j].legal /\ GameMoves(h[i])[j].to = h[i + 1]} :
           k \in 1 .. MaxHistory + 1}

RepetitionInit ==
    /\ cfg = CHOOSE r \in Req({StartNode}, {MaxSd}, {0}) : r.variant = 1
    /\ WorkerInit
    /\ \E h \in RepGames, fifty \in 0 .. MaxHistory + 1 :
          pos = [keys |-> h, fifty |-> fifty, sply |-> 0, undo |-> <<>>]
    /\ stack = <<>>
    /\ xb = XbStart /\ tn = TnStart

(* The driver asks whether the game is over.                               *)
RepetitionTest ==
    /\ xb.pc = "idle"
    /\ xb' = [xb EXCEPT !.pc = "tested", !.out = <<is_game_over(pos)>>]
    /\ ret' = [result |-> is_three_fold_repetition(pos),
               read |-> repetition_loop(pos, (Len(pos.keys) - 1) - 2, 1, {}).read]
    /\ UNCHANGED <<cfg, tn, pos, pv_table, killer_table, history_table, tt, wk, st, stack, fbm>>

RepetitionSpec == RepetitionInit /\ [][RepetitionTest]_vars

(* C36: is_three_fold_repetition returns true exactly when the key of the  *)
(* current position equals the key of at least two earlier history entries *)
(* at the indices ply-2, ply-4, ... that are at least max(0, ply - fifty); *)
(* it reads no history index below 0, none of a position with the other    *)
(* side to move and none from before the last irreversible move; and       *)
(* is_game_over reports a draw by rule for such a position that has a      *)
(* legal move.                                                             *)
C36_ThreeFold ==
    xb.pc = "tested" =>
        LET ply == Len(pos.keys) - 1
            Eligible == {i \in 0 .. ply - 2 :
                            /\ (ply - i) % 2 = 0
                            /\ i >= MAX(0, ply - pos.fifty)}
            Same == {i \in Eligible : pos.keys[i + 1] = PosKey(pos)}
        IN /\ ret.result = (Cardinality(Same) >= 2)
           /\ ret.read \subseteq Eligible
           /\ \A i \in ret.read : i >= 0 /\ PosStm([pos EXCEPT !.keys = SubSeq(@, 1, i + 1)]) = PosStm(pos)
           /\ (ret.result /\ gen_legal_moves(pos) # {}) => xb.out = <<"RESULT_DRAW_BY_RULE">>

C36_Witness ==
    /\ xb.pc = "tested" /\ ret.result
    /\ Len(pos.keys) - 1 > pos.fifty
    /\ \E i \in 1 .. Len(pos.keys) - 1 - pos.fifty :
          i % 2 = Len(pos.keys) % 2 /\ pos.keys[i] = PosKey(pos)

(* ---------------------------------------------------------------------- *)
(* Properties of the XBoard driver                                         *)
(* ---------------------------------------------------------------------- *)
Searching == {"engine", "analyze", "hint"}

(* The statics a command may set: modes, side, game_over, time control.    *)
Settings(x) ==
    <<x.analyze_mode, x.force_mode, x.post_mode, x.ponder_mode, x.tablebase_mode,
      x.engine_side, x.game_over, x.tc, x.pondering_on>>

MovesSent(x) == Cardinality({i \in DOMAIN x.out : x.out[i] = "move"})

(* C31 (retraction): when make_engine_move returns out of a search that    *)
(* ran with a ponder move on the board which no usermove has confirmed,    *)
(* that move is taken back, and between commands the board holds no        *)
(* unconfirmed ponder move.                                                *)
C31_PonderRetraction ==
    /\ [](xb.pc \in {"idle", "quit"} => ~xb.placed)
    /\ [][(xb.pc = "engine" /\ xb'.pc = "idle" /\ xb.placed)
             => pos' = board_unmake_move(pos)]_vars

C31_RetractionWitness ==
    /\ xb.pc = "idle" /\ xb.ponder /\ xb.pondering_on # NOMOVE
    /\ xb.pending.name = "usermove" /\ xb.out = <<>>

(* C31: the above, and every step of the driver has sent exactly one       *)
(* 'move' reply per engine move it made on the board.                      *)
C31_PonderMoves ==
    /\ [](xb.pc \in {"idle", "quit"} => ~xb.placed)
    /\ [][(xb.pc = "engine" /\ xb'.pc = "idle" /\ xb.placed)
             => pos' = board_unmake_move(pos)]_vars
    /\ [](MovesSent(xb) = xb.made)

(* C32: make_engine_move is entered only on a position that is not mate,   *)
(* stalemate or a draw by rule, and when go or usermove is handed to       *)
(* xboard_handle_command, game_over tells whether the game is over.        *)
C32_NoSearchWhenOver ==
    /\ [](xb.entered # "over")
    /\ [][(xb.pc = "idle" /\ xb'.last.name \in {"go", "usermove"})
             => (xb.game_over <=> is_game_over(pos) # "RESULT_UNDETERMINED")]_vars

(* The part of C32 that the code keeps: a user move is answered by a       *)
(* search only when the position after it is not final.                    *)
C32_UsermoveEntry ==
    [][(xb.pc = "idle" /\ xb'.last.name = "usermove" /\ xb'.entered # "no")
          => xb'.entered = "live"]_vars

(* The part of C31 about replies that the code keeps: a step sends one     *)
(* 'move' per engine move made, except that a search entered on a position *)
(* without a legal move sends 'move' with no move made.                    *)
C31_MoveReplies ==
    \/ MovesSent(xb) = xb.made
    \/ MovesSent(xb) = 1 /\ xb.made = 0 /\ gen_legal_moves(pos) = {}

(* What xboard_handle_command would do with the line cmd were it read      *)
(* between searches: nothing at all (no setting, position or game state    *)
(* changed, no reply, no search, no quit).                                 *)
NothingToDo(cmd) ==
    \A ext \in BOOLEAN :
        LET d == [x |-> [Fresh(xb) EXCEPT !.pc = "idle"], p |-> pos, s |-> st]
        IN xboard_handle_command(cmd, d, ext) = d

(* C33: a line read by xboard_check_input during a search is either        *)
(* handled in place without a stop, or stored as the pending command       *)
(* together with a stop; no line is dropped without effect, and no stop is *)
(* reported for a line handled in place.  ('?' and 'exit' ask for the      *)
(* stop itself; a line that does nothing between searches either has       *)
(* nothing to lose.)                                                       *)
C33_NoCommandLost ==
    [][(xb.pc \in Searching /\ xb'.lines = xb.lines + 1) =>
          LET cmd == xb'.last
              effect == \/ Settings(xb') # Settings(xb)
                        \/ xb'.out # <<>>
                        \/ xb'.placed # xb.placed
                        \/ st' # st
          IN \/ xb'.stop /\ xb'.pending = cmd
             \/ xb'.stop /\ cmd.name \in {"?", "exit"} /\ xb'.pending = xb.pending
             \/ ~xb'.stop /\ xb'.pending = xb.pending /\ (effect \/ NothingToDo(cmd))]_vars

(* C34: when an analysis search ends with no pending command the loop of   *)
(* xboard_cmd_analyze is left with analyze_mode false; a pending quit or   *)
(* force does not start the analysis again; any other pending command is   *)
(* executed once and the analysis starts again; and every analysis search  *)
(* starts with the pending slot cleared.                                   *)
C34_AnalyzeLoop ==
    /\ [][(xb.pc = "analyze" /\ xb'.lines = xb.lines) =>
             IF xb.pending = NoCommand
                THEN xb'.pc = "idle" /\ ~xb'.analyze_mode
             ELSE IF xb.pending.name \in {"quit", "force"}
                THEN xb'.pc # "analyze"
             ELSE xb'.pc = "analyze" /\ xb'.executed = xb.pending]_vars
    /\ [][(xb'.pc = "analyze" /\ xb'.lines = xb.lines) => xb'.pending = NoCommand]_vars

(* The part of C34 that the code keeps: bk, new, setboard, undo and        *)
(* usermove are executed once before the next analysis search, the slot is *)
(* cleared before each search, and the loop is left exactly when no        *)
(* command is pending.                                                     *)
C34_AnalyzeLoopKept ==
    /\ [][(xb.pc = "analyze" /\ xb'.lines = xb.lines) =>
             IF xb.pending = NoCommand
                THEN xb'.pc = "idle" /\ ~xb'.analyze_mode
             ELSE /\ xb'.pc = "analyze"
                  /\ xb'.executed = IF xb.pending.name \in {"quit", "force"}
                                       THEN NoCommand ELSE xb.pending]_vars
    /\ [][(xb'.pc = "analyze" /\ xb'.lines = xb.lines) => xb'.pending = NoCommand]_vars

(* C35: a command that xboard_handle_command answers with 'Error (...)' or *)
(* 'Illegal move' leaves the position, game_over, the modes and the time   *)
(* control as they were and starts no search.                              *)
C35_RejectedChangeNothing ==
    [][(/\ xb.pc = "idle"
        /\ \E i \in DOMAIN xb'.out :
              xb'.out[i] \in {"Error (malformed command)", "Error (command not legal now)",
                              "Error (unknown command)", "Illegal move"})
          => /\ pos' = pos
             /\ Settings(xb') = Settings(xb)
             /\ xb'.pc = "idle" /\ xb'.entered = "no"
             /\ st' = st]_vars

C35_Witness ==
    /\ xb.pc = "idle" /\ xb.out = <<"Illegal move">>
    /\ xb.last = Cmd("usermove", TRUE, 73) /\ PosKey(pos) = 7
    /\ Len(pos.keys) > 1 /\ xb.force_mode

(* ====================================================================== *)
(* The tuner's worker threads (tuner.c)                                    *)
(* ====================================================================== *)
(* find_k and tune_parameters are run with up to MaxThreads worker threads *)
(* on a training set of TrainingSize positions, for up to MaxCalls calls   *)
(* of calc_texel_error.                                                    *)
MaxThreads == 2
MaxSpurious == 1
MaxCalls == 2
TrainingSize == 5

(* An event (thread.c) is a flag that event_set raises and that event_wait *)
(* waits for and lowers.  The memory malloc returns is not initialised:    *)
(* the events in it are "uninit", the other fields hold no value the       *)
(* program wrote.  thr and at are the thread and its place in              *)
(* calc_texel_error_func; run is the pass at work (the range it reads, the *)
(* call during which it began); passes, writing and early are history      *)
(* variables: the passes begun, whether the sum is being written, and what *)
(* the thread did too early.                                               *)
NoSum == [k |-> -1, first |-> -1, last |-> -1, call |-> -1]

NewWorker ==
    [thr |-> "none", at |-> "none", ev_start |-> "uninit", ev_done |-> "uninit",
     state |-> "garbage", first_pos |-> -1, last_pos |-> -1, k |-> -1, sum |-> NoSum,
     update_pv |-> "garbage", final |-> FALSE, run |-> NoSum, passes |-> 0,
     writing |-> FALSE, early |-> {}]

(* The k of the n-th call: find_k steps through values, tune_parameters    *)
(* (local_optimize) uses the constant K.                                   *)
KOfCall(mode, n) == IF mode = "find_k" THEN 10 + n ELSE 1

TnKeep == UNCHANGED <<cfg, xb, pos, pv_table, killer_table, history_table, tt, wk, st, stack, ret, fbm>>

(* find_k 596-598, tune_parameters 685-687.                                *)
TnBegin(mode, nthreads) ==
    /\ tn.pc = "off"
    /\ tn' = [tn EXCEPT !.pc = "create", !.mode = mode, !.nworkerthreads = nthreads,
                        !.w = [i \in 1 .. nthreads |-> NewWorker], !.iter = 1]
    /\ TnKeep

(* init_workers, one statement group at a time: the fields and             *)
(* thread_create, then event_init of ev_start, then event_init of ev_done. *)
(* workers[iter] of the source is w[iter + 1].                             *)
init_workers ==
    LET i == tn.iter
        ppt == TrainingSize \div tn.nworkerthreads
    IN /\ \/ /\ tn.pc = "create"
             /\ tn' = [tn EXCEPT !.w[i].state = "WORKER_IDLE",
                                 !.w[i].first_pos = (i - 1) * ppt,
                                 !.w[i].last_pos = (i - 1) * ppt + ppt - 1,
                                 !.w[i].thr = "run", !.w[i].at = "start",
                                 !.pc = "init_start"]
          \/ /\ tn.pc = "init_start"
             /\ tn' = [tn EXCEPT !.w[i].ev_start = "clear", !.pc = "init_done"]
          \/ /\ tn.pc = "init_done"
             /\ tn' = [tn EXCEPT !.w[i].ev_done = "clear",
                                 !.iter = IF i < tn.nworkerthreads THEN i + 1 ELSE 1,
                                 !.pc = IF i < tn.nworkerthreads THEN "create" ELSE "setup"]
       /\ TnKeep

(* After init_workers: mark_pv_for_update and the last worker's last_pos   *)
(* (find_k 600-603; tune_parameters 691 and local_optimize 290).           *)
TnSetup ==
    /\ tn.pc = "setup"
    /\ tn' = [tn EXCEPT !.w = [i \in 1 .. tn.nworkerthreads |->
                                  [tn.w[i] EXCEPT !.update_pv = "true", !.final = TRUE,
                                                  !.last_pos = IF i = tn.nworkerthreads
                                                                  THEN TrainingSize - 1
                                                                  ELSE @]],
                        !.pc = "start", !.iter = 1, !.call = 1,
                        !.k = KOfCall(tn.mode, 1)]
    /\ TnKeep

(* calc_texel_error: the start loop, the wait loop (event_wait returns     *)
(* once ev_done is raised, and lowers it), the sum; then its caller calls  *)
(* again or goes on.                                                       *)
calc_texel_error ==
    LET i == tn.iter
        n == tn.nworkerthreads
    IN /\ \/ /\ tn.pc = "start"
             /\ tn' = [tn EXCEPT !.w[i].k = tn.k, !.w[i].state = "WORKER_RUNNING",
                                 !.w[i].ev_start = "set",
                                 !.iter = IF i < n THEN i + 1 ELSE 1,
                                 !.pc = IF i < n THEN "start" ELSE "wait"]
          \/ /\ tn.pc = "wait"
             /\ tn.w[i].ev_done = "set"
             /\ tn' = [tn EXCEPT !.w[i].ev_done = "clear",
                                 !.iter = IF i < n THEN i + 1 ELSE 1,
                                 !.pc = IF i < n THEN "wait" ELSE "sum"]
          \/ /\ tn.pc = "sum"
             /\ tn' = [tn EXCEPT !.result = [j \in 1 .. n |-> tn.w[j].sum],
                                 !.torn = {j \in 1 .. n : tn.w[j].writing},
                                 !.pc = "called"]
          \/ /\ tn.pc = "called" /\ tn.call < MaxCalls
             /\ tn' = [tn EXCEPT !.pc = "start", !.iter = 1, !.call = @ + 1,
                                 !.k = KOfCall(tn.mode, tn.call + 1)]
          \/ /\ tn.pc = "called"
             /\ tn' = [tn EXCEPT !.pc = IF tn.mode = "find_k" THEN "stop" ELSE "destroy",
                                 !.iter = 1]
       /\ TnKeep

(* find_k 627-637: the stop loop and the join loop (thread_join returns    *)
(* once the thread has exited).                                            *)
find_k_stop ==
    LET i == tn.iter
        n == tn.nworkerthreads
    IN /\ \/ /\ tn.pc = "stop"
             /\ tn' = [tn EXCEPT !.w[i].k = tn.k, !.w[i].state = "WORKER_STOPPED",
                                 !.w[i].ev_start = "set",
                                 !.iter = IF i < n THEN i + 1 ELSE 1,
                                 !.pc = IF i < n THEN "stop" ELSE "join"]
          \/ /\ tn.pc = "join"
             /\ tn.w[i].thr = "exited"
             /\ tn' = [tn EXCEPT !.w[i].thr = "joined",
                                 !.iter = IF i < n THEN i + 1 ELSE 1,
                                 !.pc = IF i < n THEN "join" ELSE "destroy"]
       /\ TnKeep

(* destroy_workers and free(workers) (find_k 644-645, tune_parameters      *)
(* 709-710).                                                               *)
destroy_workers ==
    /\ tn.pc = "destroy"
    /\ tn' = [tn EXCEPT !.w = [i \in 1 .. tn.nworkerthreads |->
                                  [tn.w[i] EXCEPT !.ev_start = "destroyed",
                                                  !.ev_done = "destroyed"]],
                        !.pc = "freed"]
    /\ TnKeep

(* The thread of worker i.  Waiting for, or raising, an event that was     *)
(* never initialised is undefined: the wait may return at once or go on    *)
(* waiting, the set is lost.  A flag read from memory nobody wrote takes   *)
(* either value.  A wait on an event that was never initialised returns    *)
(* at most MaxSpurious times.                                              *)
calc_texel_error_func(i) ==
    LET me == tn.w[i]
    IN /\ tn.pc \notin {"off", "freed"}
       /\ me.thr = "run"
       /\ \/ /\ me.at = "start"
             /\ tn' = [tn EXCEPT !.w[i].at = "waiting",
                                 !.w[i].early = IF me.ev_start = "uninit"
                                                   THEN @ \cup {"wait"} ELSE @]
          \/ /\ me.at = "waiting" /\ me.ev_start = "set"
             /\ tn' = [tn EXCEPT !.w[i].at = "check", !.w[i].ev_start = "clear"]
          \/ /\ me.at = "waiting" /\ me.ev_start = "uninit"
             /\ me.passes < MaxSpurious
             /\ tn' = [tn EXCEPT !.w[i].at = "check"]
          \/ /\ me.at = "check" /\ me.state = "WORKER_STOPPED"
             /\ tn' = [tn EXCEPT !.w[i].at = "exited", !.w[i].thr = "exited"]
          \/ /\ me.at = "check" /\ me.state # "WORKER_STOPPED"
             /\ \E taken \in IF me.update_pv = "garbage" THEN BOOLEAN
                             ELSE {me.update_pv = "true"} :
                   tn' = [tn EXCEPT !.w[i].at = "pass",
                                    !.w[i].update_pv = IF taken THEN "false" ELSE @,
                                    !.w[i].early = IF me.final THEN @ ELSE @ \cup {"read"},
                                    !.w[i].run = [k |-> me.k, first |-> me.first_pos,
                                                  last |-> me.last_pos, call |-> tn.call],
                                    !.w[i].writing = TRUE,
                                    !.w[i].passes = @ + 1]
          \/ /\ me.at = "pass"
             /\ tn' = [tn EXCEPT !.w[i].at = "done",
                                 !.w[i].sum = [me.run EXCEPT !.k = me.k],
                                 !.w[i].writing = FALSE,
                                 !.w[i].state = "WORKER_FINISHED"]
          \/ /\ me.at = "done"
             /\ tn' = [tn EXCEPT !.w[i].at = "start",
                                 !.w[i].ev_done = IF @ = "uninit" THEN @ ELSE "set",
                                 !.w[i].early = IF me.ev_done = "uninit"
                                                   THEN @ \cup {"set"} ELSE @]
       /\ TnKeep

TunerInit ==
    /\ cfg = CHOOSE r \in Req({StartNode}, {MaxSd}, {0}) : r.variant = 1
    /\ WorkerInit
    /\ pos = MkPos(<<>>, StartNode, 0)
    /\ stack = <<>>
    /\ xb = XbStart /\ tn = TnStart

TunerNext ==
    \/ \E mode \in {"find_k", "tune_parameters"}, nthreads \in 1 .. MaxThreads :
          TnBegin(mode, nthreads)
    \/ init_workers
    \/ TnSetup
    \/ calc_texel_error
    \/ find_k_stop
    \/ destroy_workers
    \/ \E i \in 1 .. MaxThreads : i <= tn.nworkerthreads /\ calc_texel_error_func(i)

TunerSpec == TunerInit /\ [][TunerNext]_vars

(* ---------------------------------------------------------------------- *)
(* Properties of the tuner's threads                                       *)
(* ---------------------------------------------------------------------- *)
TnWorkers == 1 .. tn.nworkerthreads

(* C39: a worker thread never waits on ev_start or sets ev_done before     *)
(* init_workers has initialised that event, and never reads first_pos,     *)
(* last_pos or update_pv before the main thread wrote their final values.  *)
C39_EventsInitialised == \A i \in TnWorkers : tn.w[i].early = {}

(* C39, what the code keeps: a thread exists only once its record's        *)
(* fields were written, and once init_workers has returned every event is  *)
(* initialised.                                                            *)
C39_InitialisedAfterInit ==
    \A i \in TnWorkers :
       /\ tn.w[i].thr # "none" => tn.w[i].first_pos >= 0 /\ tn.w[i].state # "garbage"
       /\ tn.pc \notin {"create", "init_start", "init_done"}
             => tn.w[i].ev_start # "uninit" /\ tn.w[i].ev_done # "uninit"

(* C37: when destroy_workers has destroyed the events and the workers      *)
(* array is freed, every worker thread was told to stop, has exited and    *)
(* has been joined.                                                        *)
C37_JoinedBeforeDestroy ==
    tn.pc = "freed" =>
       \A i \in TnWorkers : tn.w[i].thr = "joined" /\ tn.w[i].state = "WORKER_STOPPED"

(* C37, what the code keeps: find_k destroys the events only after every   *)
(* thread was stopped and joined.                                          *)
C37_FindKJoins ==
    tn.pc = "freed" /\ tn.mode = "find_k" =>
       \A i \in TnWorkers : tn.w[i].thr = "joined" /\ tn.w[i].state = "WORKER_STOPPED"

(* What a call of calc_texel_error has to have read when it returns: no    *)
(* sum that was being written, from every worker the sum of its one pass   *)
(* of this call, made with the k of this call over the worker's share of   *)
(* the training set.                                                       *)
BarrierHeld ==
    /\ tn.torn = {}
    /\ \A i \in TnWorkers :
          /\ tn.result[i].k = tn.k
          /\ tn.result[i].call = tn.call
          /\ tn.w[i].passes = tn.call
          /\ tn.result[i].first = IF i = 1 THEN 0 ELSE tn.result[i - 1].last + 1
          /\ i = tn.nworkerthreads => tn.result[i].last = TrainingSize - 1

(* C38: each call of calc_texel_error returns the sums of one pass of      *)
(* every worker, made with the k of that call and read after the worker    *)
(* finished writing, for every interleaving of the threads.                *)
C38_Barrier == tn.pc = "called" => BarrierHeld

(* C38, what the code keeps: the barrier holds in every run in which no    *)
(* worker used an event before its initialisation.                         *)
C38_BarrierInitialised ==
    tn.pc = "called" /\ (\A i \in TnWorkers : tn.w[i].early = {}) => BarrierHeld

====
